---------------------------- MODULE Spec2Model ----------------------------
(***************************************************************************)
(* MatrixClock: the RTC abstraction (clock.py, the three adafruit_*        *)
(* drivers), the 2000-based calendar arithmetic (datetime_2000.py) and the *)
(* TimeKeeper, commands and main loop of code.py, the serial console, the  *)
(* telnet parser and the logger, as a state machine.                       *)
(*                                                                         *)
(*   SpecCal     Time2000.mktime / Time2000.datetime applied to inputs     *)
(*               drawn from the whole 2000-2099 range                      *)
(*   SpecIdent   chip identification against a simulated register set      *)
(*   SpecClock   TimeKeeper.update_chip / sync_time driving a ticking chip *)
(*   SpecDriver  calls on a driver object                                  *)
(*   SpecStartup Clock.__init__ up to the search for the square wave       *)
(*   SpecSqw     Clock.setup_sqw over the candidate pins                   *)
(*   SpecWave    Clock.has_square_wave statement by statement              *)
(*   SpecLoop    the main loop of code.py                                  *)
(*   SpecRtc     the rtc command of code.py (Options.rtc)                  *)
(*   SpecButton  Button.read and the UP button in the main loop            *)
(*   SpecConsole Console.get_line over the keys typed                      *)
(*   SpecHistory the console's command history and the up arrow            *)
(*   SpecTelnet  the byte parser of TelnetD (telnet.py)                    *)
(*   SpecLogger  Logger.message and the 'logging' option                   *)
(***************************************************************************)
EXTENDS Integers, Sequences, FiniteSets, TLC

VARIABLES
    cal,              \* SpecCal: the input and the results of the conversions
    hw,               \* SpecIdent: which probed locations exist / are writable
    regs,             \* SpecIdent: the values of the probed bits
    regs0,            \* SpecIdent: the probed bits before identification
    ident,            \* SpecIdent: outcome of the last identification run
    chip,             \* SpecClock: the attached chip (kind, date/time, oscillator)
    local_time_secs,  \* SpecClock: TimeKeeper.local_time_secs
    last,             \* SpecClock: the handler that has just run, its result and its bus traffic
    budget,           \* SpecClock: handlers and idle seconds still allowed
    driver,           \* SpecDriver: the registers of the chip behind a driver object
    call,             \* SpecDriver: the driver call that has just run and how it ended
    pins,             \* SpecSqw: the candidate pins, their signals and their handles
    sqw,              \* SpecSqw: what setup_sqw returned to Clock.__init__
    wave,             \* SpecWave: Clock.has_square_wave step by step, the clock and the pin
    loop,             \* SpecLoop: the main loop of code.py, the chip and the square-wave pin
    rtc,              \* SpecRtc: the rtc command that has just run, the chip and local_time_secs
    button,           \* SpecButton: the UP button, Button.read and what the main loop did with it
    console,          \* SpecConsole, SpecHistory: the Console object, the serial input and the last get_line
    telnet,           \* SpecTelnet: the TelnetD parser and the bytes fed to it
    logger            \* SpecLogger: the Logger, the 'logging' option, the log file and its file system

calVars == <<cal>>
identVars == <<hw, regs, regs0, ident>>
clockVars == <<chip, local_time_secs, last, budget>>
driverVars == <<driver, call>>
sqwVars == <<pins, sqw>>
waveVars == <<wave>>
loopVars == <<loop>>
rtcVars == <<rtc>>
buttonVars == <<button>>
consoleVars == <<console>>
telnetVars == <<telnet>>
loggerVars == <<logger>>
vars == <<cal, hw, regs, regs0, ident, chip, local_time_secs, last, budget,
          driver, call, pins, sqw, wave, loop, rtc, button, console, telnet, logger>>

\* the variables a specification leaves alone
exceptCal == <<identVars, clockVars, driverVars, sqwVars, waveVars, loopVars, rtcVars, buttonVars, consoleVars, telnetVars, loggerVars>>
exceptIdent == <<calVars, clockVars, driverVars, sqwVars, waveVars, loopVars, rtcVars, buttonVars, consoleVars, telnetVars, loggerVars>>
exceptClock == <<calVars, identVars, driverVars, sqwVars, waveVars, loopVars, rtcVars, buttonVars, consoleVars, telnetVars, loggerVars>>
exceptDriver == <<calVars, identVars, clockVars, sqwVars, waveVars, loopVars, rtcVars, buttonVars, consoleVars, telnetVars, loggerVars>>
exceptSqw == <<calVars, identVars, clockVars, driverVars, waveVars, loopVars, rtcVars, buttonVars, consoleVars, telnetVars, loggerVars>>
exceptWave == <<calVars, identVars, clockVars, driverVars, sqwVars, loopVars, rtcVars, buttonVars, consoleVars, telnetVars, loggerVars>>
exceptLoop == <<calVars, identVars, clockVars, driverVars, sqwVars, waveVars, rtcVars, buttonVars, consoleVars, telnetVars, loggerVars>>
exceptRtc == <<calVars, identVars, clockVars, driverVars, sqwVars, waveVars, loopVars, buttonVars, consoleVars, telnetVars, loggerVars>>
exceptButton == <<calVars, identVars, clockVars, driverVars, sqwVars, waveVars, loopVars, rtcVars, consoleVars, telnetVars, loggerVars>>
exceptConsole == <<calVars, identVars, clockVars, driverVars, sqwVars, waveVars, loopVars, rtcVars, buttonVars, telnetVars, loggerVars>>
exceptTelnet == <<calVars, identVars, clockVars, driverVars, sqwVars, waveVars, loopVars, rtcVars, buttonVars, consoleVars, loggerVars>>
exceptLogger == <<calVars, identVars, clockVars, driverVars, sqwVars, waveVars, loopVars, rtcVars, buttonVars, consoleVars, telnetVars>>

\* the values of the variables a specification does not use
NoHw == [w5 |-> FALSE, w10 |-> FALSE, w3f |-> FALSE, has13 |-> FALSE]
NoRegs == [r5b7 |-> FALSE, r10b7 |-> FALSE, r3fb0 |-> FALSE]
NoIdent == [phase |-> "idle", proc |-> "none", f |-> 0, before |-> NoRegs,
            ret |-> "none", exc |-> "none", n |-> 0]
NoChip == [kind |-> "none"]

(***************************************************************************)
(* datetime_2000.py                                                        *)
(***************************************************************************)
Seconds_per_minute == 60
Seconds_per_hour == Seconds_per_minute * 60
Seconds_per_day == Seconds_per_hour * 24
Seconds_per_year == Seconds_per_day * 365
Seconds_per_leap_year == Seconds_per_year + Seconds_per_day
Seconds_per_quadrennial == Seconds_per_leap_year + (3 * Seconds_per_year)

\* a faulty variant: the table of a leap year
cumulative_days_leap == <<0, 31, 60, 91, 121, 152, 182, 213, 244, 274, 305, 335>>

cumulative_days == <<0, 31, 59, 90, 120, 151, 181, 212, 243, 273, 304, 334>>

day_of_week_magic == <<6, 2, 1, 4, 6, 2, 4, 0, 3, 5, 1, 3>>

\* Python's int(a / b): truncation toward zero
PyTrunc(a, b) == IF a >= 0 THEN a \div b ELSE -((-a) \div b)

\* Python list indexing lst[i]: negative indexes count from the end;
\* an index outside -len..len-1 raises IndexError
PyIndexOk(lst, i) == i >= -Len(lst) /\ i < Len(lst)
PyIndex(lst, i) == IF i >= 0 THEN lst[i + 1] ELSE lst[Len(lst) + i + 1]

\* bool used as an integer
B2I(b) == IF b THEN 1 ELSE 0

\* Python integers are unbounded and the seconds of 2068-2099 exceed 2^31, the
\* width of the integers the model is checked with: a count of seconds is held as
\* whole days d and second of the day s, standing for d * Seconds_per_day + s
Secs(d, s) == [d |-> d + (s \div (60 * 60 * 24)), s |-> s % (60 * 60 * 24)]
SecsAdd(a, n) == Secs(a.d, a.s + n)
\* a // c and a % c for a divisor c that is a whole number of days
SecsFloorDiv(a, c) == a.d \div (c \div (60 * 60 * 24))
SecsMod(a, c) == (a.d % (c \div (60 * 60 * 24))) * (60 * 60 * 24) + a.s

\* time.struct_time
struct_time(y, mo, d, h, mi, s, wd, yd, dst) ==
    [tm_year |-> y, tm_mon |-> mo, tm_mday |-> d, tm_hour |-> h, tm_min |-> mi,
     tm_sec |-> s, tm_wday |-> wd, tm_yday |-> yd, tm_isdst |-> dst]

\* a faulty variant: January and February are not counted with the year before
day_of_week_same_year(year, month, day) ==
    (year + PyTrunc(year, 4) + PyIndex(day_of_week_magic, month - 1) + day) % 7

day_of_week(year, month, day) ==
    LET y == year - B2I(month < 3)
    IN  (y + PyTrunc(y, 4) + PyIndex(day_of_week_magic, month - 1) + day) % 7

\* a faulty variant: the day that years 1 to 3 of a quadrennial add is left out
seconds_before_today_short(yr, mon, day) ==
    Secs(((yr * 365) + PyTrunc(yr, 4)) +
         PyIndex(cumulative_days, mon - 1) +
         (day - 1) +
         B2I((mon > 2) /\ ((yr % 4) = 0)), 0)

\* the days counted by _seconds_before_today, which returns them times Seconds_per_day
seconds_before_today(yr, mon, day) ==
    Secs(((yr * 365) + PyTrunc(yr, 4) + B2I((yr % 4) > 0)) +
         PyIndex(cumulative_days, mon - 1) +
         (day - 1) +
         B2I((mon > 2) /\ ((yr % 4) = 0)), 0)

mktime(ts) ==
    LET yr == ts.tm_year % 100
    IN  SecsAdd(seconds_before_today(yr, ts.tm_mon, ts.tm_mday),
                (ts.tm_hour * Seconds_per_hour) +
                (ts.tm_min * Seconds_per_minute) +
                ts.tm_sec)

\* the loop of Time2000.datetime over reversed(cumulative_days): month runs
\* 12, 11, ... and stops at the first whose cumulative days fit
\* a faulty variant: the leap day is added in every year
RECURSIVE month_loop_every_year(_, _, _)
month_loop_every_year(month, days, leap_year) ==
    LET cumulative == cumulative_days[month] + B2I(month > 2)
    IN  IF days >= cumulative \/ month = 1
        THEN [month |-> month, cumulative |-> cumulative]
        ELSE month_loop_every_year(month - 1, days, leap_year)

RECURSIVE month_loop(_, _, _)
month_loop(month, days, leap_year) ==
    LET cumulative == cumulative_days[month] + B2I(leap_year /\ (month > 2))
    IN  IF days >= cumulative \/ month = 1
        THEN [month |-> month, cumulative |-> cumulative]
        ELSE month_loop(month - 1, days, leap_year)

datetime(seconds) ==
    LET quads == SecsFloorDiv(seconds, Seconds_per_quadrennial)
        r1    == SecsMod(seconds, Seconds_per_quadrennial)
        first == r1 < Seconds_per_leap_year      \* else-branch: leap_year = True
        r2    == IF first THEN r1 ELSE r1 - Seconds_per_leap_year
        year  == 2000 + 4 * quads + B2I(~first) + (r2 \div Seconds_per_year)
        r3    == r2 % Seconds_per_year
        days  == r3 \div Seconds_per_day
        r4    == r3 % Seconds_per_day
        ml    == month_loop(12, days, first)
        day   == days - ml.cumulative + 1
        hours == r4 \div Seconds_per_hour
        r5    == r4 % Seconds_per_hour
        minutes == r5 \div Seconds_per_minute
        r6    == r5 % Seconds_per_minute
    IN  struct_time(year, ml.month, day, hours, minutes, r6,
                    day_of_week(year, ml.month, day), days + 1, -1)

(***************************************************************************)
(* The civil calendar the code is measured against (Gregorian rules,       *)
(* 2000-01-01 was a Saturday).                                             *)
(***************************************************************************)
FirstYear == 2000
LastYear == 2099

IsLeap(y) == (y % 4 = 0) /\ ((y % 100 # 0) \/ (y % 400 = 0))
DaysInYear(y) == IF IsLeap(y) THEN 366 ELSE 365
DaysInMonth(y, m) ==
    IF m = 2 THEN (IF IsLeap(y) THEN 29 ELSE 28)
    ELSE IF m \in {4, 6, 9, 11} THEN 30 ELSE 31

RECURSIVE DaysBeforeYear(_)
DaysBeforeYear(y) == IF y <= FirstYear THEN 0 ELSE DaysBeforeYear(y - 1) + DaysInYear(y - 1)

RECURSIVE DaysBeforeMonth(_, _)
DaysBeforeMonth(y, m) == IF m <= 1 THEN 0 ELSE DaysBeforeMonth(y, m - 1) + DaysInMonth(y, m - 1)

CivilDays(y, m, d) == DaysBeforeYear(y) + DaysBeforeMonth(y, m) + (d - 1)
CivilSeconds(ts) ==
    Secs(CivilDays(ts.tm_year, ts.tm_mon, ts.tm_mday),
         ts.tm_hour * 3600 + ts.tm_min * 60 + ts.tm_sec)
CivilWeekday(y, m, d) == (6 + CivilDays(y, m, d)) % 7

ValidCivil(ts) ==
    /\ ts.tm_year \in FirstYear..LastYear
    /\ ts.tm_mon \in 1..12
    /\ ts.tm_mday \in 1..DaysInMonth(ts.tm_year, ts.tm_mon)
    /\ ts.tm_hour \in 0..23 /\ ts.tm_min \in 0..59 /\ ts.tm_sec \in 0..59
    /\ ts.tm_wday = CivilWeekday(ts.tm_year, ts.tm_mon, ts.tm_mday)

\* the seven fields a date/time is compared on
SameFields(a, b) ==
    /\ a.tm_year = b.tm_year /\ a.tm_mon = b.tm_mon /\ a.tm_mday = b.tm_mday
    /\ a.tm_hour = b.tm_hour /\ a.tm_min = b.tm_min /\ a.tm_sec = b.tm_sec
    /\ a.tm_wday = b.tm_wday

CivilTs(y, m, d, h, mi, s) == struct_time(y, m, d, h, mi, s, CivilWeekday(y, m, d), -1, -1)

\* the days of 2000-2099
TotalDays == DaysBeforeYear(LastYear) + DaysInYear(LastYear)

\* the second after a valid date/time, which is also what a running chip counts to
CivilSucc(dt) ==
    IF dt.tm_sec < 59 THEN [dt EXCEPT !.tm_sec = @ + 1]
    ELSE IF dt.tm_min < 59 THEN [dt EXCEPT !.tm_sec = 0, !.tm_min = @ + 1]
    ELSE IF dt.tm_hour < 23 THEN [dt EXCEPT !.tm_sec = 0, !.tm_min = 0, !.tm_hour = @ + 1]
    ELSE LET day == [dt EXCEPT !.tm_sec = 0, !.tm_min = 0, !.tm_hour = 0,
                               !.tm_wday = (@ + 1) % 7]
         IN  IF dt.tm_mday < DaysInMonth(dt.tm_year, dt.tm_mon)
             THEN [day EXCEPT !.tm_mday = @ + 1]
             ELSE IF dt.tm_mon < 12
                  THEN [day EXCEPT !.tm_mday = 1, !.tm_mon = @ + 1]
                  ELSE [day EXCEPT !.tm_mday = 1, !.tm_mon = 1,
                                   !.tm_year = 2000 + ((@ - 2000 + 1) % 100)]

\* dt1 is earlier than dt2
Earlier(a, b) ==
    LET fa == <<a.tm_year, a.tm_mon, a.tm_mday, a.tm_hour, a.tm_min, a.tm_sec>>
        fb == <<b.tm_year, b.tm_mon, b.tm_mday, b.tm_hour, b.tm_min, b.tm_sec>>
    IN  \E i \in 1..6 : fa[i] < fb[i] /\ \A j \in 1..(i - 1) : fa[j] = fb[j]

\* a < b for two counts of seconds
SecsLess(a, b) == a.d < b.d \/ (a.d = b.d /\ a.s < b.s)


(***************************************************************************)
(* SpecCal: the conversions applied to every day of 2000-2099.             *)
(***************************************************************************)
\* times of day tried on every date
TimesOfDay == {<<0, 0, 0>>, <<23, 59, 59>>}

NoTs == struct_time(0, 0, 0, 0, 0, 0, 0, 0, 0)
NoSecs == Secs(0, 0)
CalIdle == [phase |-> "idle", ts |-> NoTs, secs |-> NoSecs, back_ts |-> NoTs, back_secs |-> NoSecs,
            later |-> NoTs, later_secs |-> NoSecs, wday |-> 0]

\* the date whose every second is paired with the second after it
FullDay == <<2024, 2, 28>>
\* date/times paired with one another across months, leap days and years
FarApart ==
    {CivilTs(2000, 1, 1, 0, 0, 0), CivilTs(2000, 2, 29, 23, 59, 59), CivilTs(2000, 3, 1, 0, 0, 0),
     CivilTs(2000, 12, 31, 23, 59, 59), CivilTs(2001, 1, 1, 0, 0, 0), CivilTs(2001, 1, 31, 12, 0, 0),
     CivilTs(2001, 2, 1, 0, 0, 1), CivilTs(2023, 12, 31, 0, 59, 0), CivilTs(2024, 1, 1, 0, 0, 59),
     CivilTs(2024, 2, 29, 1, 0, 0), CivilTs(2068, 1, 19, 3, 14, 7), CivilTs(2068, 1, 19, 3, 14, 8),
     CivilTs(2096, 2, 29, 23, 0, 0), CivilTs(2099, 12, 31, 23, 59, 59)}

\* an earlier and a later date/time
Pair(a, b) == [CalIdle EXCEPT !.phase = "pair", !.ts = a, !.later = b]

\* every date of 2000-2099, and every day of the second range, at each time of day
CalInit ==
    \/ \E y \in FirstYear..LastYear, m \in 1..12, d \in 1..31, t \in TimesOfDay :
          /\ d <= DaysInMonth(y, m)
          /\ cal = [CalIdle EXCEPT !.phase = "ts", !.ts = CivilTs(y, m, d, t[1], t[2], t[3])]
    \/ \E d \in 0..(TotalDays - 1), t \in TimesOfDay :
          cal = [CalIdle EXCEPT !.phase = "secs",
                                !.secs = Secs(d, t[1] * 3600 + t[2] * 60 + t[3])]
    \* every date at each time of day with the second after it
    \/ \E y \in FirstYear..LastYear, m \in 1..12, d \in 1..31, t \in TimesOfDay :
          /\ d <= DaysInMonth(y, m)
          /\ <<y, m, d, t>> # <<LastYear, 12, 31, <<23, 59, 59>>>>
          /\ cal = Pair(CivilTs(y, m, d, t[1], t[2], t[3]),
                        CivilSucc(CivilTs(y, m, d, t[1], t[2], t[3])))
    \* every second of one day with the second after it
    \/ \E h \in 0..23, mi \in 0..59, s \in 0..59 :
          cal = Pair(CivilTs(FullDay[1], FullDay[2], FullDay[3], h, mi, s),
                     CivilSucc(CivilTs(FullDay[1], FullDay[2], FullDay[3], h, mi, s)))
    \* 28 February and 1 March of every year
    \/ \E y \in FirstYear..LastYear :
          cal = Pair(CivilTs(y, 2, 28, 0, 0, 0), CivilTs(y, 3, 1, 0, 0, 0))
    \* date/times far apart
    \/ \E a \in FarApart, b \in FarApart :
          /\ Earlier(a, b)
          /\ cal = Pair(a, b)

\* Time2000.datetime(Time2000.mktime(ts))
MktimeThenDatetime ==
    /\ cal.phase = "ts"
    /\ cal' = [cal EXCEPT !.phase = "ts_done",
                          !.secs = mktime(cal.ts),
                          !.back_ts = datetime(mktime(cal.ts))]

\* Time2000.day_of_week(ts.tm_year, ts.tm_mon, ts.tm_mday)
DayOfWeek ==
    /\ cal.phase = "ts"
    /\ cal' = [cal EXCEPT !.phase = "wday_done",
                          !.wday = day_of_week(cal.ts.tm_year, cal.ts.tm_mon, cal.ts.tm_mday)]

\* Time2000.mktime(dt1) and Time2000.mktime(dt2)
MktimeBoth ==
    /\ cal.phase = "pair"
    /\ cal' = [cal EXCEPT !.phase = "pair_done",
                          !.secs = mktime(cal.ts),
                          !.later_secs = mktime(cal.later)]

\* Time2000.mktime(Time2000.datetime(secs))
DatetimeThenMktime ==
    /\ cal.phase = "secs"
    /\ cal' = [cal EXCEPT !.phase = "secs_done",
                          !.ts = datetime(cal.secs),
                          !.back_secs = mktime(datetime(cal.secs))]

(***************************************************************************)
(* Chip identification: adafruit_ds1307.py, adafruit_ds3231.py,            *)
(* adafruit_pcf8523.py, clock.py (Clock.Chip).                             *)
(*                                                                         *)
(* The simulated register set: hw says which probed bits take a written    *)
(* value (w5, w10, w3f) and whether register 0x13 answers a read (has13);  *)
(* regs holds the bits.  A bit that is not writable keeps its value.       *)
(* Every access of a bit is a bus transaction; f is the number of the      *)
(* access of a run on which the bus fails with OSError (0: no failure).    *)
(***************************************************************************)
Writable(h, bit) ==
    CASE bit = "r5b7" -> h.w5
      [] bit = "r10b7" -> h.w10
      [] bit = "r3fb0" -> h.w3f

\* i2c_bit.RWBit.__set__: the register takes the value where the chip implements the bit
WriteBit(r, h, bit, v) == IF Writable(h, bit) THEN [r EXCEPT ![bit] = v] ELSE r

\* how a procedure ends: a returned value or a raised exception, the registers
\* it leaves and the number of bus accesses it made
Returns(r, v, n) == [regs |-> r, ret |-> v, exc |-> "none", n |-> n]
Raises(r, e, n) == [regs |-> r, ret |-> "none", exc |-> e, n |-> n]

DS1307_chip_identity(r, h, f) ==
    IF f = 1 THEN Raises(r, "OSError", 1) ELSE
    LET r5b7 == r.r5b7 IN
    IF f = 2 THEN Raises(r, "OSError", 2) ELSE
    LET ra == WriteBit(r, h, "r5b7", TRUE) IN
    IF f = 3 THEN Raises(ra, "OSError", 3) ELSE
    IF ra.r5b7
    THEN IF f = 4 THEN Raises(ra, "OSError", 4)
         ELSE Returns(WriteBit(ra, h, "r5b7", r5b7), "DS3231", 4)
    ELSE
    IF f = 4 THEN Raises(ra, "OSError", 4) ELSE
    LET r10b7 == ra.r10b7 IN
    IF f = 5 THEN Raises(ra, "OSError", 5) ELSE
    LET rb == WriteBit(ra, h, "r10b7", TRUE) IN
    IF f = 6 THEN Raises(rb, "OSError", 6) ELSE
    IF rb.r10b7
    THEN IF f = 7 THEN Raises(rb, "OSError", 7)
         ELSE Returns(WriteBit(rb, h, "r10b7", r10b7), "DS1307", 7)
    ELSE Returns(rb, "PCF8523", 6)

\* a faulty variant: the saved values are tested instead of the bits read back
DS3231_chip_identity_stale(r, h, f) ==
    IF f = 1 THEN Raises(r, "OSError", 1) ELSE
    LET r5b7 == r.r5b7 IN
    IF f = 2 THEN Raises(r, "OSError", 2) ELSE
    LET ra == WriteBit(r, h, "r5b7", TRUE) IN
    IF f = 3 THEN Raises(ra, "OSError", 3) ELSE
    IF r5b7
    THEN IF f = 4 THEN Raises(ra, "OSError", 4)
         ELSE Returns(WriteBit(ra, h, "r5b7", r5b7), "DS3231", 4)
    ELSE
    IF f = 4 THEN Raises(ra, "OSError", 4) ELSE
    LET r10b7 == ra.r10b7 IN
    IF f = 5 THEN Raises(ra, "OSError", 5) ELSE
    LET rb == WriteBit(ra, h, "r10b7", TRUE) IN
    IF f = 6 THEN Raises(rb, "OSError", 6) ELSE
    IF r10b7
    THEN IF f = 7 THEN Raises(rb, "OSError", 7)
         ELSE Returns(WriteBit(rb, h, "r10b7", r10b7), "DS1307", 7)
    ELSE Returns(rb, "PCF8523", 6)

DS3231_chip_identity(r, h, f) ==
    IF f = 1 THEN Raises(r, "OSError", 1) ELSE
    LET r5b7 == r.r5b7 IN
    IF f = 2 THEN Raises(r, "OSError", 2) ELSE
    LET ra == WriteBit(r, h, "r5b7", TRUE) IN
    IF f = 3 THEN Raises(ra, "OSError", 3) ELSE
    IF ra.r5b7
    THEN IF f = 4 THEN Raises(ra, "OSError", 4)
         ELSE Returns(WriteBit(ra, h, "r5b7", r5b7), "DS3231", 4)
    ELSE
    IF f = 4 THEN Raises(ra, "OSError", 4) ELSE
    LET r10b7 == ra.r10b7 IN
    IF f = 5 THEN Raises(ra, "OSError", 5) ELSE
    LET rb == WriteBit(ra, h, "r10b7", TRUE) IN
    IF f = 6 THEN Raises(rb, "OSError", 6) ELSE
    IF rb.r10b7
    THEN IF f = 7 THEN Raises(rb, "OSError", 7)
         ELSE Returns(WriteBit(rb, h, "r10b7", r10b7), "DS1307", 7)
    ELSE Returns(rb, "PCF8523", 6)

PCF8523_chip_identity(r, h, f) ==
    \* try: r13b0 = self._r13b0 / except OSError: return 'DS3231'
    IF f = 1 \/ ~h.has13 THEN Returns(r, "DS3231", 1) ELSE
    IF f = 2 THEN Raises(r, "OSError", 2) ELSE
    LET r3fb0 == r.r3fb0 IN
    IF f = 3 THEN Raises(r, "OSError", 3) ELSE
    LET ra == WriteBit(r, h, "r3fb0", ~r3fb0) IN
    IF f = 4 THEN Raises(ra, "OSError", 4) ELSE
    IF r3fb0 # ra.r3fb0
    THEN IF f = 5 THEN Raises(ra, "OSError", 5)
         ELSE Returns(WriteBit(ra, h, "r3fb0", r3fb0), "DS1307", 5)
    ELSE Returns(ra, "PCF8523", 4)

\* a faulty variant: the test of the toggled bit is inverted
Chip_identity_inverted(r, h, f) ==
    IF f = 1 \/ ~h.has13 THEN Returns(r, "DS3231", 1) ELSE
    IF f = 2 THEN Raises(r, "UnboundLocalError", 2) ELSE
    LET r3fb0 == r.r3fb0 IN
    IF f = 3 THEN Raises(r, "UnboundLocalError", 3) ELSE
    LET ra == WriteBit(r, h, "r3fb0", ~r3fb0) IN
    IF f = 4 THEN Raises(ra, "UnboundLocalError", 4) ELSE
    IF r3fb0 # ra.r3fb0
    THEN Returns(ra, "PCF8523", 4)
    ELSE IF f = 5 THEN Returns(ra, "DS1307", 5)
         ELSE Returns(WriteBit(ra, h, "r3fb0", r3fb0), "DS1307", 5)

\* Clock.Chip._identity.  An OSError inside the inner try is caught and printed:
\* before dev_id is assigned it leaves dev_id unbound and 'return dev_id' raises
\* UnboundLocalError; on the restoring write dev_id is 'DS1307' already.
Chip_identity(r, h, f) ==
    IF f = 1 \/ ~h.has13 THEN Returns(r, "DS3231", 1) ELSE
    IF f = 2 THEN Raises(r, "UnboundLocalError", 2) ELSE
    LET r3fb0 == r.r3fb0 IN
    IF f = 3 THEN Raises(r, "UnboundLocalError", 3) ELSE
    LET ra == WriteBit(r, h, "r3fb0", ~r3fb0) IN
    IF f = 4 THEN Raises(ra, "UnboundLocalError", 4) ELSE
    IF r3fb0 = ra.r3fb0
    THEN Returns(ra, "PCF8523", 4)
    ELSE IF f = 5 THEN Returns(ra, "DS1307", 5)
         ELSE Returns(WriteBit(ra, h, "r3fb0", r3fb0), "DS1307", 5)

\* the constructor of the driver class cls: chip_identity must name the class
Driver_init(cls, r, h, f) ==
    LET res == CASE cls = "DS1307" -> DS1307_chip_identity(r, h, f)
                 [] cls = "DS3231" -> DS3231_chip_identity(r, h, f)
                 [] cls = "PCF8523" -> PCF8523_chip_identity(r, h, f)
    IN  IF res.exc # "none" THEN res
        ELSE IF res.ret # cls
             THEN Raises(res.regs, IF cls = "PCF8523" THEN "RuntimeError" ELSE "ValueError", res.n)
             ELSE Returns(res.regs, cls, res.n)

\* Clock.Chip(i2c_bus).identify()(i2c_bus): the probe selects the driver class,
\* whose constructor probes again
Chip_identify(r, h, f) ==
    LET p == Chip_identity(r, h, f) IN
    IF p.exc # "none" THEN p
    ELSE LET d == Driver_init(p.ret, p.regs, h, IF f > p.n THEN f - p.n ELSE 0)
         IN  [d EXCEPT !.n = p.n + d.n]

\* the most bus accesses one identification makes
MaxAccess == 12

IdentInit ==
    /\ hw \in [w5 : BOOLEAN, w10 : BOOLEAN, w3f : BOOLEAN, has13 : BOOLEAN]
    /\ regs \in [r5b7 : BOOLEAN, r10b7 : BOOLEAN, r3fb0 : BOOLEAN]
    /\ regs0 = regs
    /\ ident = NoIdent

Ran(proc, f, res) ==
    /\ ident' = [phase |-> "done", proc |-> proc, f |-> f, before |-> regs,
                 ret |-> res.ret, exc |-> res.exc, n |-> res.n]
    /\ regs' = res.regs
    /\ UNCHANGED <<hw, regs0>>

Run_DS1307_chip_identity ==
    \E f \in 0..MaxAccess : \E res \in {DS1307_chip_identity(regs, hw, f)} : Ran("DS1307.chip_identity", f, res)

Run_DS3231_chip_identity ==
    \E f \in 0..MaxAccess : \E res \in {DS3231_chip_identity(regs, hw, f)} : Ran("DS3231.chip_identity", f, res)

Run_PCF8523_chip_identity ==
    \E f \in 0..MaxAccess : \E res \in {PCF8523_chip_identity(regs, hw, f)} : Ran("PCF8523.chip_identity", f, res)

Run_Chip_identity ==
    \E f \in 0..MaxAccess : \E res \in {Chip_identity(regs, hw, f)} : Ran("Chip._identity", f, res)

Run_Chip_identify ==
    \E f \in 0..MaxAccess : \E res \in {Chip_identify(regs, hw, f)} : Ran("Chip.identify", f, res)

(***************************************************************************)
(* The chip as the drivers see it.  chip.dt is the date/time the BCD       *)
(* register decodes to; a run of a handler is threaded through a context   *)
(* holding the chip, the bus traffic so far, the number of bus accesses    *)
(* made and how the run stands (an exception in flight, or polling a       *)
(* seconds field that never changes).                                      *)
(***************************************************************************)
\* adafruit_register.i2c_bcd_datetime: value + 6 * (value // 10), stored in a byte
bin2bcd(v) == (v + 6 * (v \div 10)) % 256
bcd2bin(b) == b - 6 * (b \div 16)

\* what BCDDateTimeRegister reads back after value was written to it
bcd_stored(value) ==
    struct_time(bcd2bin(bin2bcd(value.tm_year - 2000)) + 2000,
                bcd2bin(bin2bcd(value.tm_mon)),
                bcd2bin(bin2bcd(value.tm_mday)),
                bcd2bin(bin2bcd(value.tm_hour)),
                bcd2bin(bin2bcd(value.tm_min)),
                bcd2bin(bin2bcd(value.tm_sec) % 128),
                value.tm_wday, -1, -1)

ChipValid(dt) ==
    /\ dt.tm_mon \in 1..12
    /\ dt.tm_mday \in 1..DaysInMonth(dt.tm_year, dt.tm_mon)
    /\ dt.tm_hour \in 0..23 /\ dt.tm_min \in 0..59 /\ dt.tm_sec \in 0..59

\* what the registers can hold one second later.  The data sheets leave the
\* counting from an illogical date/time undefined: below 59 the seconds count
\* up, otherwise they wrap and the minutes either carry or do not.
ChipNext(dt) ==
    IF ChipValid(dt) THEN <<CivilSucc(dt)>>
    ELSE IF dt.tm_sec < 59 THEN <<[dt EXCEPT !.tm_sec = @ + 1]>>
    ELSE <<[dt EXCEPT !.tm_sec = 0], [dt EXCEPT !.tm_sec = 0, !.tm_min = (@ + 1) % 60]>>

Pick(options, u) == options[IF u <= Len(options) THEN u ELSE 1]

Rep(x, m) == [i \in 1..m |-> x]

\* reading, written, caught and reads record, for the properties, the date/time
\* the update first read, the one it assigned to chip.datetime, the exception
\* Clock.update_chip caught and the values the reads of the latest
\* datetime_at_second_boundary returned
Ctx(ch) == [chip |-> ch, bus |-> <<>>, n |-> 0, exc |-> "none", hung |-> FALSE, val |-> NoTs,
            reading |-> NoTs, written |-> NoTs, caught |-> "none", reads |-> <<>>]
Stopped(c) == c.exc # "none" \/ c.hung

\* an exception raised by the code itself (no bus access)
Throw(c, e) == IF Stopped(c) THEN c ELSE [c EXCEPT !.exc = e]

\* one bus access named what, leaving the chip as ch when it succeeds
Access(c, f, what, ch) ==
    IF Stopped(c) THEN c
    ELSE IF c.n + 1 = f
         THEN [c EXCEPT !.n = f, !.exc = "OSError", !.bus = Append(@, "OSError")]
         ELSE [c EXCEPT !.n = @ + 1, !.bus = Append(@, what), !.chip = ch]

\* chip.datetime (getter) of the three drivers
chip_datetime_get(c, f) ==
    [Access(c, f, "rd datetime", c.chip) EXCEPT !.val = c.chip.dt]

\* a faulty variant: the oscillator is not stopped
set_disable_oscillator_skipped(c, f) == c

\* chip.disable_oscillator = True
set_disable_oscillator(c, f) ==
    Access(c, f, "wr disable_oscillator=True", [c.chip EXCEPT !.disable_oscillator = TRUE])

\* a faulty variant: the oscillator-disable bit is left as it is
clear_disable_oscillator_skipped(c, f) == c

\* self.disable_oscillator = False
clear_disable_oscillator(c, f) ==
    Access(c, f, "wr disable_oscillator=False", [c.chip EXCEPT !.disable_oscillator = FALSE])

\* self.lost_power = False
clear_lost_power(c, f) ==
    Access(c, f, "wr lost_power=False", [c.chip EXCEPT !.lost_power = FALSE])

\* self.datetime_register = value
DS1307_datetime_set(c, f, value) ==
    \* writing the seconds register clears bit 7 of register 0, the oscillator halt bit
    Access(c, f, "wr datetime",
           [c.chip EXCEPT !.dt = bcd_stored(value), !.disable_oscillator = FALSE])

DS3231_datetime_register_set(c, f, value) ==
    Access(c, f, "wr datetime", [c.chip EXCEPT !.dt = bcd_stored(value)])

DS3231_datetime_set(c, f, value) ==
    clear_lost_power(clear_disable_oscillator(DS3231_datetime_register_set(c, f, value), f), f)

STANDARD_BATTERY_SWITCHOVER_AND_DETECTION == 0
BATTERY_SWITCHOVER_OFF == 7

\* self.power_management = STANDARD_BATTERY_SWITCHOVER_AND_DETECTION
PCF8523_power_management_set(c, f) ==
    Access(c, f, "wr power_management",
           [c.chip EXCEPT !.power_management = STANDARD_BATTERY_SWITCHOVER_AND_DETECTION])

PCF8523_datetime_register_set(c, f, value) ==
    \* writing the seconds register clears its bit 7, the lost_power flag
    Access(c, f, "wr datetime", [c.chip EXCEPT !.dt = bcd_stored(value), !.lost_power = FALSE])

PCF8523_datetime_set(c, f, value) ==
    clear_disable_oscillator(
        PCF8523_datetime_register_set(PCF8523_power_management_set(c, f), f, value), f)

driver_datetime_set(c, f, value) ==
    CASE c.chip.kind = "DS1307" -> DS1307_datetime_set(c, f, value)
      [] c.chip.kind = "DS3231" -> DS3231_datetime_set(c, f, value)
      [] c.chip.kind = "PCF8523" -> PCF8523_datetime_set(c, f, value)

\* self.chip.datetime = value, dispatched on the driver class
chip_datetime_set(c, f, value) ==
    IF Stopped(c) THEN c ELSE driver_datetime_set([c EXCEPT !.written = value], f, value)

\* a faulty variant: the chip is read once more after the seconds changed
aligned_reads_reread(c, f, polls, nxt) ==
    IF f > c.n /\ f <= c.n + polls + 3
    THEN [c EXCEPT !.n = f, !.exc = "OSError",
                   !.bus = @ \o Rep("rd datetime", f - c.n - 1) \o <<"OSError">>,
                   !.reads = Rep(c.chip.dt, f - c.n - 1),
                   !.chip.dt = IF f >= c.n + polls + 2 THEN nxt ELSE @]
    ELSE [c EXCEPT !.n = @ + polls + 3,
                   !.bus = @ \o Rep("rd datetime", polls + 3),
                   !.reads = Rep(c.chip.dt, polls + 1) \o <<nxt, nxt>>,
                   !.chip.dt = nxt, !.val = nxt]

\* the reads of datetime_at_second_boundary on a running chip that counts to nxt:
\* dt = self.chip.datetime, then dt = self.chip.datetime while dt.tm_sec == sec
aligned_reads(c, f, polls, nxt) ==
    IF f > c.n /\ f <= c.n + polls + 2
    THEN [c EXCEPT !.n = f, !.exc = "OSError",
                   !.bus = @ \o Rep("rd datetime", f - c.n - 1) \o <<"OSError">>,
                   !.reads = Rep(c.chip.dt, f - c.n - 1),
                   !.chip.dt = IF f = c.n + polls + 2 THEN nxt ELSE @]
    ELSE [c EXCEPT !.n = @ + polls + 2,
                   !.bus = @ \o Rep("rd datetime", polls + 2),
                   !.reads = Rep(c.chip.dt, polls + 1) \o <<nxt>>,
                   !.chip.dt = nxt, !.val = nxt]

\* Clock.datetime_at_second_boundary: a first read, polls more reads of the same
\* second, and the read that sees the seconds changed, u choosing what the chip
\* counted to.  With the oscillator stopped the seconds never change.
datetime_at_second_boundary(c, f, polls, u) ==
    IF Stopped(c) THEN c
    ELSE IF c.chip.disable_oscillator
         THEN IF f = c.n + 1
              THEN [c EXCEPT !.n = f, !.exc = "OSError", !.bus = Append(@, "OSError"),
                             !.reads = <<>>]
              ELSE [c EXCEPT !.n = @ + 1, !.hung = TRUE, !.bus = Append(@, "rd datetime"),
                             !.reads = <<c.chip.dt>>]
    ELSE aligned_reads(c, f, polls, Pick(ChipNext(c.chip.dt), u))

(***************************************************************************)
(* clock.py Clock.update_chip and code.py TimeKeeper                       *)
(***************************************************************************)
\* the values Options.rtc passes to update_chip
IntVal(delta) == [kind |-> "int", delta |-> delta, form |-> "none",
                  mon |-> 0, day |-> 0, year |-> 0, hour |-> 0, mn |-> 0, sec |-> 0]
NearestVal == [IntVal(0) EXCEPT !.kind = "nearest"]
\* a string 'mm/dd/yyyy hh:mm:ss' by the numbers int() finds in it; form tells a
\* string without the blank ("nospace") or with a field that is no number
\* ("nonnumeric") from a well-formed one ("ok")
StrVal(form, mon, day, year, hour, mn, sec) ==
    [kind |-> "str", delta |-> 0, form |-> form,
     mon |-> mon, day |-> day, year |-> year, hour |-> hour, mn |-> mn, sec |-> sec]

\* Time2000.mktime indexes cumulative_days with tm_mon - 1
mktime_raises(ts) == ~PyIndexOk(cumulative_days, ts.tm_mon - 1)
day_of_week_raises(month) == ~PyIndexOk(day_of_week_magic, month - 1)

\* Time2000.mktime(c.val) is called: it raises or returns
mktime_called(c) ==
    IF ~Stopped(c) /\ mktime_raises(c.val) THEN Throw(c, "IndexError") ELSE c

\* the date/time just read is the reading of this update
first_reading(c) == [c EXCEPT !.reading = c.val]

\* secs = Time2000.mktime(...); self.chip.datetime = Time2000.datetime(secs+val)
adjust_write(c, val, f) ==
    chip_datetime_set(c, f, datetime(SecsAdd(mktime(c.val), val.delta)))

update_chip_adjust(c, val, f, polls, u) ==
    adjust_write(mktime_called(first_reading(datetime_at_second_boundary(c, f, polls, u))),
                 val, f)

\* if self.pcf8523: self.chip.disable_oscillator = True
stop_pcf8523(c, f) ==
    IF ~Stopped(c) /\ c.chip.kind = "PCF8523" THEN set_disable_oscillator(c, f) ELSE c

\* secs -= sec; if sec > 30: secs += 60
nearest_secs(dt) ==
    SecsAdd(SecsAdd(mktime(dt), -dt.tm_sec), IF dt.tm_sec > 30 THEN 60 ELSE 0)

nearest_write(c, f) ==
    chip_datetime_set(stop_pcf8523(c, f), f, datetime(nearest_secs(c.val)))

update_chip_nearest(c, val, f, polls, u) ==
    nearest_write(mktime_called(first_reading(chip_datetime_get(c, f))), f)

\* val.split(' '), split('/'), split(':') and the six int()
parse_set(c, val) ==
    IF val.form = "nospace" THEN Throw(c, "IndexError")
    ELSE IF val.form = "nonnumeric" THEN Throw(c, "ValueError")
    ELSE c

\* Time2000.day_of_week(year, mon, day) is called: it raises or returns
day_of_week_called(c, val) ==
    IF ~Stopped(c) /\ day_of_week_raises(val.mon) THEN Throw(c, "IndexError") ELSE c

update_chip_set(c, val, f, polls, u) ==
    chip_datetime_set(day_of_week_called(stop_pcf8523(parse_set(c, val), f), val), f,
                      struct_time(val.year, val.mon, val.day, val.hour, val.mn, val.sec,
                                  day_of_week(val.year, val.mon, val.day), -1, -1))

update_chip_path(c, val, f, polls, u) ==
    CASE val.kind = "int" -> update_chip_adjust(c, val, f, polls, u)
      [] val.kind = "nearest" -> update_chip_nearest(c, val, f, polls, u)
      [] val.kind = "str" -> update_chip_set(c, val, f, polls, u)

\* except: return None
except_all(c) == [c EXCEPT !.caught = c.exc, !.exc = "none"]

\* Clock.update_chip: caught other than "none" tells that None is returned
Clock_update_chip(c, val, f, polls, u) ==
    except_all(mktime_called(chip_datetime_get(update_chip_path(c, val, f, polls, u), f)))

\* a faulty variant: the chip is read without waiting for the seconds to change
TimeKeeper_sync_time_unaligned(c, f, polls, u) ==
    mktime_called(chip_datetime_get(c, f))

\* TimeKeeper.sync_time
TimeKeeper_sync_time(c, f, polls, u) ==
    mktime_called(datetime_at_second_boundary(c, f, polls, u))

\* if new_time is None: return "Invalid date/time"; self.sync_time()
sync_unless_none(c, f, polls, u) ==
    IF c.caught # "none" \/ c.hung THEN c ELSE TimeKeeper_sync_time(c, f, polls, u)

\* the chip, local_time_secs and the returned value after TimeKeeper.update_chip
update_chip_outcome(c, local) ==
    [chip |-> c.chip,
     local |-> IF c.caught # "none" \/ Stopped(c) THEN local ELSE mktime(c.val),
     result |-> IF c.hung THEN "hung"
                ELSE IF c.caught # "none" THEN "Invalid date/time"
                ELSE IF c.exc # "none" THEN "raised"
                ELSE "None",
     exc |-> c.exc, caught |-> c.caught, bus |-> c.bus,
     reading |-> c.reading, written |-> c.written, synced |-> c.val, reads |-> c.reads]

\* TimeKeeper.update_chip
TimeKeeper_update_chip(ch, local, val, f, polls, u) ==
    update_chip_outcome(
        sync_unless_none(Clock_update_chip(Ctx(ch), val, f, polls, u), f, polls, u), local)

(***************************************************************************)
(* SpecClock: the rtc command (Options.rtc) and the passing of time, from  *)
(* the state TimeKeeper's constructor leaves.                              *)
(***************************************************************************)
\* updates (rtc +/-unit, nearest, date/time) and rtc syncs run in one behaviour,
\* seconds that pass between them, same-second polls of an aligned read beyond
\* the first
MaxOps == 1
MaxSyncs == 1
MaxIdle == 1
MaxPolls == 1
\* bus accesses one handler can make, the polls included
MaxBusAccess == 11

ChipKinds == {"DS1307", "DS3231", "PCF8523"}

ClockDates == {<<2000, 12, 30>>, <<2000, 12, 31>>, <<2023, 12, 31>>, <<2024, 1, 1>>, <<2024, 2, 28>>}
ClockTimes == {<<0, 0, 30>>, <<12, 0, 0>>, <<23, 59, 29>>, <<23, 59, 30>>}

\* Options.rtc: +sec, -sec, +min, -min, +hour, -hour
AdjustDeltas == {1, -1, 60, -60, 3600, -3600}

\* strings given to 'rtc mm/dd/yyyy hh:mm:ss'
SetInputs ==
    {StrVal("ok", 3, 1, 2024, 12, 0, 0),
     StrVal("ok", 1, 15, 2024, 24, 0, 0),
     StrVal("ok", 1, 15, 2024, 12, 60, 0),
     StrVal("ok", 1, 15, 2024, 12, 0, 60),
     StrVal("ok", 13, 15, 2024, 12, 0, 0),
     StrVal("ok", 0, 15, 2024, 12, 0, 0),
     StrVal("ok", 1, 32, 2024, 12, 0, 0),
     StrVal("ok", 1, 0, 2024, 12, 0, 0),
     StrVal("nospace", 0, 0, 0, 0, 0, 0),
     StrVal("nonnumeric", 0, 0, 0, 0, 0, 0)}

NoLast == [op |-> "none", val |-> IntVal(0), result |-> "none", exc |-> "none",
           caught |-> "none", bus |-> <<>>, reading |-> NoTs, written |-> NoTs,
           synced |-> NoTs, reads |-> <<>>, local_before |-> NoSecs, chip_before |-> NoChip]

\* Clock.__init__ has started the oscillator; TimeKeeper.__init__ has read the
\* aligned time into local_time_secs
ClockInit ==
    /\ \E kind \in ChipKinds, d \in ClockDates, t \in ClockTimes, lp \in BOOLEAN :
          /\ kind = "DS1307" => ~lp
          /\ chip = [kind |-> kind,
                     dt |-> CivilTs(d[1], d[2], d[3], t[1], t[2], t[3]),
                     disable_oscillator |-> FALSE,
                     lost_power |-> lp,
                     power_management |-> IF kind = "PCF8523" THEN BATTERY_SWITCHOVER_OFF ELSE 0]
    /\ local_time_secs = mktime(chip.dt)
    /\ last = NoLast
    /\ budget = [ops |-> MaxOps, syncs |-> MaxSyncs, idle |-> MaxIdle]

\* a handler that polls forever or lets an exception escape ends the main loop
Running == last.result # "hung" /\ last.result # "raised"

\* a second passes on the chip between two handlers
Tick ==
    /\ Running /\ budget.idle > 0 /\ ~chip.disable_oscillator
    /\ \E u \in 1..2 : chip' = [chip EXCEPT !.dt = Pick(ChipNext(chip.dt), u)]
    /\ budget' = [budget EXCEPT !.idle = @ - 1]
    /\ last' = NoLast
    /\ UNCHANGED local_time_secs

\* the main loop sees the square wave fall: time_keeper.local_time_secs += 1
CountSecond ==
    /\ Running /\ budget.idle > 0
    /\ local_time_secs' = SecsAdd(local_time_secs, 1)
    /\ budget' = [budget EXCEPT !.idle = @ - 1]
    /\ last' = NoLast
    /\ UNCHANGED chip

\* rtc <val> for a val other than sync: time_keeper.update_chip(val)
Update(op, val) ==
    /\ Running /\ budget.ops > 0
    /\ \E f \in 0..MaxBusAccess, polls \in 0..MaxPolls, u \in 1..2 :
          \E r \in {TimeKeeper_update_chip(chip, local_time_secs, val, f, polls, u)} :
              /\ chip' = r.chip
              /\ local_time_secs' = r.local
              /\ last' = [op |-> op, val |-> val, result |-> r.result,
                          exc |-> r.exc, caught |-> r.caught, bus |-> r.bus,
                          reading |-> r.reading, written |-> r.written, synced |-> r.synced,
                          reads |-> r.reads,
                          local_before |-> local_time_secs, chip_before |-> chip]
    /\ budget' = [budget EXCEPT !.ops = @ - 1]

RtcAdjust == \E delta \in AdjustDeltas : Update("adjust", IntVal(delta))
RtcNearest == Update("nearest", NearestVal)
RtcSet == \E val \in SetInputs : Update("set", val)

\* rtc sync: time_keeper.sync_time()
RtcSync ==
    /\ Running /\ budget.syncs > 0
    /\ \E f \in 0..MaxBusAccess, polls \in 0..MaxPolls, u \in 1..2 :
          \E c \in {TimeKeeper_sync_time(Ctx(chip), f, polls, u)} :
              /\ chip' = c.chip
              /\ local_time_secs' = IF Stopped(c) THEN local_time_secs ELSE mktime(c.val)
              /\ last' = [NoLast EXCEPT !.op = "sync",
                              !.result = IF c.hung THEN "hung"
                                         ELSE IF c.exc # "none" THEN "raised" ELSE "None",
                              !.exc = c.exc, !.bus = c.bus, !.synced = c.val,
                              !.reads = c.reads,
                              !.local_before = local_time_secs, !.chip_before = chip]
    /\ budget' = [budget EXCEPT !.syncs = @ - 1]

(***************************************************************************)
(* SpecDriver: calls on a driver object (adafruit_ds1307.py,               *)
(* adafruit_ds3231.py, adafruit_pcf8523.py).  driver holds the registers   *)
(* the calls touch; busy_polls and conv_polls say for how many reads the   *)
(* DS3231's busy flag and conversion-request flag still read 1.            *)
(***************************************************************************)
\* a flag that never clears
Stuck == -1

\* reads of a flag beyond the first that still find it set
MaxFlagPolls == 1
\* bus accesses a driver call can make
MaxDriverAccess == 7

\* available_frequencies of the three setters
DS1307_available_frequencies ==
    (0 :> 0) @@ (1 :> 16) @@ (4096 :> 17) @@ (8192 :> 18) @@ (32768 :> 19)

\* a faulty variant: the table holds the 32768 Hz entry of the other drivers
DS3231_available_frequencies_wide ==
    (0 :> 1) @@ (1 :> 0) @@ (1024 :> 2) @@ (4096 :> 4) @@ (8192 :> 6) @@ (32768 :> 3)

DS3231_available_frequencies ==
    (0 :> 1) @@ (1 :> 0) @@ (1024 :> 2) @@ (4096 :> 4) @@ (8192 :> 6)

PCF8523_available_frequencies ==
    (0 :> 7) @@ (1 :> 6) @@ (32 :> 5) @@ (1024 :> 4) @@ (4096 :> 3) @@ (8192 :> 2)
    @@ (16384 :> 1) @@ (32768 :> 0)

available_frequencies(kind) ==
    CASE kind = "DS1307" -> DS1307_available_frequencies
      [] kind = "DS3231" -> DS3231_available_frequencies
      [] kind = "PCF8523" -> PCF8523_available_frequencies

\* self._square_wave_control = code
square_wave_control_set(c, f, code) ==
    Access(c, f, "wr square_wave_control", [c.chip EXCEPT !.square_wave_control = code])

\* square_wave_frequency (setter): the dictionary lookup raises KeyError, which
\* becomes ValueError('square wave frequency {} not available'.format(frequency))
square_wave_frequency_set(c, f, frequency) ==
    IF frequency \in DOMAIN available_frequencies(c.chip.kind)
    THEN square_wave_control_set(c, f, available_frequencies(c.chip.kind)[frequency])
    ELSE Throw(c, "ValueError")

\* square_wave_frequency (getter) of the three drivers, by the value read from
\* _square_wave_control
DS1307_square_wave_frequency(value) ==
    IF value = value % 4 THEN 0 ELSE PyIndex(<<1, 4096, 8192, 32768>>, value % 4)

DS3231_square_wave_frequency(value) ==
    PyIndex(<<1, 0, 1024, 0, 4096, 0, 8192, 0>>, value)

PCF8523_square_wave_frequency(value) ==
    PyIndex(<<1, 32, 1024, 4096, 8192, 16384, 32768, 0>>, value)

square_wave_frequency(kind, value) ==
    CASE kind = "DS1307" -> DS1307_square_wave_frequency(value)
      [] kind = "DS3231" -> DS3231_square_wave_frequency(value)
      [] kind = "PCF8523" -> PCF8523_square_wave_frequency(value)

\* value = self._square_wave_control
square_wave_control_get(c, f) == Access(c, f, "rd square_wave_control", c.chip)

\* the text of the exception a call ended with, by the value it names
message(c, frequency) ==
    IF c.exc = "ValueError"
    THEN <<"square wave frequency ", frequency, " not available">>
    ELSE <<>>

\* while self._busy: pass / while self._conv: pass, the flag reading 1 on polls
\* reads and 0 on the next; a flag that is stuck is read until the bus fails
wait_flag(c, f, what, polls) ==
    IF Stopped(c) THEN c
    ELSE IF f > c.n /\ (polls = Stuck \/ f <= c.n + polls + 1)
         THEN [c EXCEPT !.n = f, !.exc = "OSError",
                        !.bus = @ \o Rep(what, f - c.n - 1) \o <<"OSError">>]
         ELSE IF polls = Stuck
              THEN [c EXCEPT !.n = @ + 1, !.hung = TRUE, !.bus = Append(@, what)]
              ELSE [c EXCEPT !.n = @ + polls + 1, !.bus = @ \o Rep(what, polls + 1)]

\* self._conv = True
conv_set(c, f) == Access(c, f, "wr conv=True", c.chip)

\* return self.temperature
temperature_get(c, f) == Access(c, f, "rd temperature", c.chip)

\* DS3231.force_temperature_conversion
force_temperature_conversion(c, f) ==
    temperature_get(
        wait_flag(conv_set(wait_flag(c, f, "rd busy", c.chip.busy_polls), f),
                  f, "rd conv", c.chip.conv_polls), f)

\* self._calibration = value
calibration_register_set(c, f, value) ==
    Access(c, f, "wr calibration", [c.chip EXCEPT !.calibration = value])

\* DS3231.calibration (setter)
calibration_set(c, f, value) ==
    force_temperature_conversion(calibration_register_set(c, f, value), f)

\* a faulty variant: the day of the month is not looked at
validate_datetime_no_day(ts) ==
    /\ ~(ts.tm_mon < 1 \/ ts.tm_mon > 12)
    /\ ~(ts.tm_hour > 23 \/ ts.tm_min > 59 \/ ts.tm_sec > 59)

\* Clock.validate_datetime, of the date/time read from the chip
validate_datetime(ts) ==
    /\ ~(ts.tm_mday < 1 \/ ts.tm_mday > 31)
    /\ ~(ts.tm_mon < 1 \/ ts.tm_mon > 12)
    /\ ~(ts.tm_hour > 23 \/ ts.tm_min > 59 \/ ts.tm_sec > 59)

\* if self.chip.disable_oscillator:
disable_oscillator_get(c, f) == Access(c, f, "rd disable_oscillator", c.chip)

\* time.sleep(1): a started chip counts one second on, u choosing what it counts to
sleep_1(c, u) ==
    IF Stopped(c) THEN c ELSE [c EXCEPT !.chip.dt = Pick(ChipNext(c.chip.dt), u)]

\* self.chip.disable_oscillator = False; time.sleep(1), when the bit read true
ensure_running(c, f, u) ==
    IF Stopped(c) \/ ~c.chip.disable_oscillator THEN c
    ELSE sleep_1(clear_disable_oscillator(c, f), u)

\* if not self.validate_datetime(): self.chip.datetime = ts, ts being
\* time.struct_time((2000, 1, 1, 0, 0, 0, -1, -1, -1))
replace_invalid(c, f) ==
    IF Stopped(c) \/ validate_datetime(c.val) THEN c
    ELSE chip_datetime_set(c, f, struct_time(2000, 1, 1, 0, 0, 0, -1, -1, -1))

\* Clock.__init__ from the constructed driver object to the call of setup_sqw
Clock_init(c, f, u) ==
    replace_invalid(
        chip_datetime_get(
            square_wave_frequency_set(
                ensure_running(disable_oscillator_get(c, f), f, u), f, 1), f), f)

\* driver calls in one behaviour
MaxCalls == 1

\* got holds what a read of square_wave_frequency gave since the last call
NoGot == [state |-> "none", value |-> 0]
NoCall == [op |-> "none", arg |-> 0, result |-> "none", exc |-> "none",
           message |-> <<>>, bus |-> <<>>, before |-> NoChip, n |-> 0, got |-> NoGot]

FlagBehaviours == (0..MaxFlagPolls) \cup {Stuck}

\* values the square-wave control bits can hold when a call starts
InitialControl(kind) ==
    CASE kind = "DS1307" -> {0, 16, 19}
      [] kind = "DS3231" -> {0, 1, 6}
      [] kind = "PCF8523" -> {0, 6, 7}

\* date/times the registers can hold when the program starts: a valid one and
\* ones with a field out of range
StoredDates ==
    {CivilTs(2024, 2, 28, 23, 59, 30),
     [CivilTs(2024, 2, 28, 23, 59, 30) EXCEPT !.tm_mday = 0],
     [CivilTs(2024, 2, 28, 23, 59, 30) EXCEPT !.tm_mon = 13],
     [CivilTs(2024, 2, 28, 23, 59, 30) EXCEPT !.tm_hour = 24],
     [CivilTs(2024, 2, 28, 23, 59, 30) EXCEPT !.tm_min = 60],
     [CivilTs(2024, 2, 28, 23, 59, 30) EXCEPT !.tm_sec = 60]}

\* a driver object has been constructed on a chip in any state, its date/time
\* registers holding one of dates
DriverBuilt(dates) ==
    /\ \E kind \in ChipKinds, dis \in BOOLEAN, lp \in BOOLEAN,
          bp \in FlagBehaviours, cp \in FlagBehaviours, dt \in dates :
          /\ kind = "DS1307" => ~lp
          /\ kind # "DS3231" => (bp = 0 /\ cp = 0)
          /\ \E sq \in InitialControl(kind) :
                driver = [kind |-> kind,
                          dt |-> dt,
                          disable_oscillator |-> dis,
                          lost_power |-> lp,
                          power_management |-> IF kind = "PCF8523" THEN BATTERY_SWITCHOVER_OFF ELSE 0,
                          square_wave_control |-> sq,
                          calibration |-> 0,
                          busy_polls |-> bp,
                          conv_polls |-> cp]
    /\ call = NoCall

\* the driver calls start from a chip that keeps a valid date/time
DriverInit == DriverBuilt({CivilTs(2024, 2, 28, 23, 59, 30)})

\* Clock.__init__ finds whatever the registers held at power-up
StartupInit == DriverBuilt(StoredDates)

\* frequencies asked for: those some driver supports and some none does
FrequencyInputs == {0, 1, 2, 32, 1024, 4096, 8192, 16384, 32768, 65536, -1}

DriverDates == {CivilTs(2024, 3, 1, 12, 0, 0), CivilTs(2000, 1, 1, 0, 0, 0)}

CalibrationInputs == {-128, 5, 127}

\* a call can be made: the last one returned or raised
CanCall == call.n < MaxCalls /\ call.result # "hung"

\* the call op(arg) has run and left the context c
Called(op, arg, c, msg) ==
    /\ driver' = c.chip
    /\ call' = [op |-> op, arg |-> arg,
                result |-> IF c.hung THEN "hung"
                           ELSE IF c.exc # "none" THEN "raised" ELSE "returned",
                exc |-> c.exc, message |-> msg, bus |-> c.bus, before |-> driver,
                n |-> call.n + 1, got |-> NoGot]

\* chip.square_wave_frequency = frequency
Set_square_wave_frequency ==
    /\ CanCall
    /\ \E frequency \in FrequencyInputs, f \in 0..MaxDriverAccess :
          \E c \in {square_wave_frequency_set(Ctx(driver), f, frequency)} :
              Called("square_wave_frequency", frequency, c, message(c, frequency))

\* chip.square_wave_frequency read once after the last call
Get_square_wave_frequency ==
    /\ call.result # "hung" /\ call.got.state = "none"
    /\ \E f \in 0..1 :
          \E c \in {square_wave_control_get(Ctx(driver), f)} :
              call' = [call EXCEPT !.got =
                          IF c.exc # "none" THEN [state |-> "raised", value |-> 0]
                          ELSE [state |-> "returned",
                                value |-> square_wave_frequency(driver.kind,
                                                                driver.square_wave_control)]]
    /\ driver' = driver

\* Clock.__init__ after Clock.Chip(i2c_bus).identify()(i2c_bus) has built the
\* driver: "returned" tells that setup_sqw is called
Clock_init_to_search ==
    /\ CanCall
    /\ \E f \in 0..MaxDriverAccess, u \in 1..2 :
          \E c \in {Clock_init(Ctx(driver), f, u)} :
              Called("Clock.__init__", 0, c, <<>>)

\* chip.datetime = value
Set_datetime ==
    /\ CanCall
    /\ \E value \in DriverDates, f \in 0..MaxDriverAccess :
          \E c \in {chip_datetime_set(Ctx(driver), f, value)} :
              Called("datetime", 0, c, <<>>)

\* chip.force_temperature_conversion()
Force_temperature_conversion ==
    /\ CanCall
    /\ driver.kind = "DS3231"
    /\ \E f \in 0..MaxDriverAccess :
          \E c \in {force_temperature_conversion(Ctx(driver), f)} :
              Called("force_temperature_conversion", 0, c, <<>>)

\* chip.calibration = value
Set_calibration ==
    /\ CanCall
    /\ driver.kind = "DS3231"
    /\ \E value \in CalibrationInputs, f \in 0..MaxDriverAccess :
          \E c \in {calibration_set(Ctx(driver), f, value)} :
              Called("calibration", value, c, <<>>)

(***************************************************************************)
(* SpecSqw: Clock.setup_sqw and Clock.has_square_wave (clock.py).  Each    *)
(* candidate pin carries a signal: "quiet" shows no level change in the    *)
(* two seconds it is watched, "toggles" shows one, "late" shows one in the *)
(* last pass of the loop, so that the clock has reached end_time when the  *)
(* function compares it once more on return.                               *)
(***************************************************************************)
\* for pin in ['A1', 'A2', 'A3', 'A4', 'A0']
PinOrder == <<"A1", "A2", "A3", "A4", "A0">>

Pins == {PinOrder[i] : i \in 1..Len(PinOrder)}
Signals == {"quiet", "toggles", "late"}

NoPins == [p \in Pins |-> [signal |-> "quiet", handle |-> "none", sampled |-> FALSE]]
NoSqw == [phase |-> "idle", pin |-> "None", aborted |-> FALSE]

\* Clock.has_square_wave: return time.monotonic_ns() < end_time
has_square_wave(signal) == signal = "toggles"

\* digitalio.DigitalInOut(board_pin), direction INPUT, pull UP, and the sampling
\* of has_square_wave
configure(ps, pin) == [ps EXCEPT ![pin].handle = "held", ![pin].sampled = TRUE]

\* a faulty variant: the rejected pin is not released
deinit_forgotten(ps, pin) == ps

\* sqw.deinit()
deinit(ps, pin) == [ps EXCEPT ![pin].handle = "deinit"]

\* the for loop of setup_sqw from the i-th candidate on; the else branch of the
\* loop sets sqw = None
RECURSIVE setup_sqw_from(_, _)
setup_sqw_from(ps, i) ==
    IF i > Len(PinOrder) THEN [pins |-> ps, sqw |-> "None"]
    ELSE IF has_square_wave(ps[PinOrder[i]].signal)
         THEN [pins |-> configure(ps, PinOrder[i]), sqw |-> PinOrder[i]]
         ELSE setup_sqw_from(deinit(configure(ps, PinOrder[i]), PinOrder[i]), i + 1)

\* Clock.setup_sqw
setup_sqw(ps) == setup_sqw_from(ps, 1)

SqwInit ==
    /\ pins \in [Pins -> [signal : Signals, handle : {"none"}, sampled : {FALSE}]]
    /\ sqw = NoSqw

\* Clock.__init__: self.sqw = self.setup_sqw(); if self.sqw is None: sys.exit()
Setup_sqw ==
    /\ sqw.phase = "idle"
    /\ \E r \in {setup_sqw(pins)} :
          /\ pins' = r.pins
          /\ sqw' = [phase |-> "done", pin |-> r.sqw, aborted |-> r.sqw = "None"]

(***************************************************************************)
(* SpecWave: Clock.has_square_wave (clock.py) one statement at a time,     *)
(* with time.monotonic_ns() advancing and the pin changing level between   *)
(* any two statements.  Time is counted in seconds.                        *)
(***************************************************************************)
\* end_time = time.monotonic_ns() + 2 * (10**9)
Window == 2

MaxNow == 3
MaxToggles == 2

NoWave == [pc |-> "idle", now |-> 0, level |-> FALSE, toggles |-> 0,
           end_time |-> 0, sqw_val |-> FALSE, observed |-> FALSE,
           result |-> FALSE]

\* the pin as has_square_wave finds it
WaveInit ==
    \E l \in BOOLEAN : wave = [NoWave EXCEPT !.pc = "end_time", !.level = l]

\* time.monotonic_ns() moves on while the function runs
ClockAdvance ==
    /\ wave.pc \notin {"idle", "done"}
    /\ wave.now < MaxNow
    /\ wave' = [wave EXCEPT !.now = @ + 1]

\* the signal on the pin changes level while the function runs
LevelChange ==
    /\ wave.pc \notin {"idle", "done"}
    /\ wave.toggles < MaxToggles
    /\ wave' = [wave EXCEPT !.level = ~@, !.toggles = @ + 1]

\* end_time = time.monotonic_ns() + 2 * (10**9)
SetEndTime ==
    /\ wave.pc = "end_time"
    /\ wave' = [wave EXCEPT !.end_time = wave.now + Window, !.pc = "sqw_val"]

\* sqw_val = sqw.value
FirstSample ==
    /\ wave.pc = "sqw_val"
    /\ wave' = [wave EXCEPT !.sqw_val = wave.level, !.pc = "while"]

\* while time.monotonic_ns() < end_time:
WhileTest ==
    /\ wave.pc = "while"
    /\ wave' = [wave EXCEPT !.pc = IF wave.now < wave.end_time THEN "if" ELSE "return"]

\* if sqw.value != sqw_val: break
\* observed records that a level other than the first sample was read while
\* the clock was still short of end_time
ReadPin ==
    /\ wave.pc = "if"
    /\ wave' = [wave EXCEPT
                  !.pc = IF wave.level # wave.sqw_val THEN "return" ELSE "while",
                  !.observed = @ \/ (wave.level # wave.sqw_val /\ wave.now < wave.end_time)]

\* return time.monotonic_ns() < end_time
Return ==
    /\ wave.pc = "return"
    /\ wave' = [wave EXCEPT !.result = wave.now < wave.end_time, !.pc = "done"]

(***************************************************************************)
(* SpecLoop: the main loop of code.py.  The chip runs with a 1 Hz square   *)
(* wave whose falling edge is the moment the seconds change, as the loop   *)
(* assumes when it counts a second on every fall: the pin is low in the    *)
(* first half of a chip second (half = 0) and high in the second           *)
(* (half = 1).  An iteration is one pass through the body of the while     *)
(* loop; between iterations half a second passes only after the pin has    *)
(* been sampled in the current half, the loop sleeping 50 ms.  Commands    *)
(* that write the chip's date/time are left to SpecClock.                  *)
(***************************************************************************)
MaxHalf == 4
MaxLoopAccess == 2

\* what the latest iteration did at the edge handling, for the properties
NoIteration == [ran |-> FALSE, sqw |-> FALSE, last_sqw |-> FALSE,
                local_before |-> NoSecs, local_after |-> NoSecs,
                uptime_before |-> 0, uptime_after |-> 0, updates |-> 0,
                resynced |-> FALSE]

NoLoop == [phase |-> "idle", chip |-> NoChip, half |-> 0, elapsed |-> 0,
           local |-> NoSecs, uptime |-> 0, last_sqw |-> FALSE, handle |-> "none",
           sampled |-> FALSE, t0 |-> 0, updates |-> 0, exc |-> "none",
           ended_by |-> "none", cmd |-> "none", it |-> NoIteration]

LoopDates == {CivilTs(2024, 2, 28, 23, 59, 58), CivilTs(2099, 12, 30, 12, 0, 0)}

\* last_sqw = False; timer = Timer(); time_keeper.sync_time(): the chip has just
\* changed its seconds, uptime is 0 and the located pin is held
LoopInit ==
    \E kind \in ChipKinds, dt \in LoopDates :
        loop = [NoLoop EXCEPT
                  !.phase = "running",
                  !.chip = [kind |-> kind, dt |-> dt,
                            disable_oscillator |-> FALSE, lost_power |-> FALSE,
                            power_management |-> IF kind = "PCF8523"
                                                 THEN BATTERY_SWITCHOVER_OFF ELSE 0,
                            square_wave_control |-> available_frequencies(kind)[1]],
                  !.local = mktime(dt),
                  !.handle = "held"]

\* time_keeper.clock.sqw.value
Level(L) == L.half = 1

\* half a second of the chip: the pin rises in the middle of a second and falls
\* as the seconds change
half_second_passes(L) ==
    IF L.half = 0
    THEN [L EXCEPT !.half = 1, !.elapsed = @ + 1, !.sampled = FALSE]
    ELSE [L EXCEPT !.half = 0, !.elapsed = @ + 1, !.sampled = FALSE,
                   !.chip.dt = CivilSucc(@)]

\* the loop after sync_time ended as c: the aligned read returns as the seconds
\* change
loop_synced(L, c) ==
    IF c.exc # "none"
    THEN [L EXCEPT !.exc = c.exc, !.chip = c.chip,
                   !.half = IF c.chip.dt = L.chip.dt THEN @ ELSE 0]
    ELSE [L EXCEPT !.chip = c.chip, !.elapsed = @ + (2 - L.half), !.half = 0,
                   !.sampled = FALSE, !.local = mktime(c.val)]

\* time_keeper.sync_time() called from the loop
loop_sync_time(L, f, polls) ==
    IF L.exc # "none" \/ L.phase = "ended" THEN L
    ELSE loop_synced(L, TimeKeeper_sync_time(Ctx(L.chip), f, polls, 1))

\* Options.restart after the assignment to square_wave_frequency ended as c:
\* time_keeper.clock.sqw.deinit(); supervisor.reload()
restarted(L, c) ==
    IF c.exc # "none" THEN [L EXCEPT !.exc = c.exc, !.chip = c.chip]
    ELSE [L EXCEPT !.chip = c.chip, !.handle = "deinit", !.phase = "ended",
                   !.ended_by = "restart"]

\* Options.restart
Options_restart(L, f) == restarted(L, square_wave_frequency_set(Ctx(L.chip), f, 0))

\* the commands the loop takes from the console or the socket
Commands == {"none", "rtc sync", "slow", "restart"}

\* timer.start and command.run(cmdstr): no command, rtc sync, a command during
\* which d half seconds pass, restart
run_command(L, cmd, f, polls, d) ==
    CASE cmd = "none" -> L
      [] cmd = "rtc sync" -> loop_sync_time(L, f, polls)
      [] cmd = "slow" -> IF d = 1 THEN half_second_passes(L)
                         ELSE half_second_passes(half_second_passes(L))
      [] cmd = "restart" -> Options_restart(L, f)

\* timer.start
timer_start(L, cmd) == [L EXCEPT !.t0 = L.elapsed, !.updates = 0, !.cmd = cmd,
                                 !.it = NoIteration]

\* a faulty variant: the second is counted when the pin rises
edge_step_rising(L) ==
    IF Level(L) = L.last_sqw THEN L
    ELSE [L EXCEPT !.last_sqw = Level(L),
                   !.updates = @ + 1,
                   !.local = IF Level(L) THEN SecsAdd(@, 1) ELSE @,
                   !.uptime = IF Level(L) THEN @ + 1 ELSE @]

\* sqw = time_keeper.clock.sqw.value; if sqw != last_sqw: last_sqw = sqw;
\* display.update(); if not sqw: local_time_secs += 1; uptime += 1
edge_step(L) ==
    IF Level(L) = L.last_sqw THEN L
    ELSE [L EXCEPT !.last_sqw = Level(L),
                   !.updates = @ + 1,
                   !.local = IF Level(L) THEN @ ELSE SecsAdd(@, 1),
                   !.uptime = IF Level(L) THEN @ ELSE @ + 1]

\* the edge handling took the loop from before to after
recorded(before, after) ==
    [after EXCEPT !.sampled = TRUE,
                  !.it = [ran |-> TRUE, sqw |-> Level(before),
                          last_sqw |-> before.last_sqw,
                          local_before |-> before.local, local_after |-> after.local,
                          uptime_before |-> before.uptime, uptime_after |-> after.uptime,
                          updates |-> after.updates, resynced |-> FALSE]]

\* the edge handling is reached unless the command raised or restarted
sample_and_count(L) ==
    IF L.exc # "none" \/ L.phase = "ended" THEN L ELSE recorded(L, edge_step(L))

\* timer.stop; timer.diff > 300_000_000: two half seconds take more than 300 ms,
\* less can
timer_long(L, long) == long \/ L.elapsed - L.t0 >= 2

\* if timer.diff > 300_000_000: time_keeper.sync_time()
resync(L, long, g, polls) ==
    IF L.exc # "none" \/ L.phase = "ended" \/ ~timer_long(L, long) THEN L
    ELSE [loop_sync_time(L, g, polls) EXCEPT !.it.resynced = TRUE]

\* except Exception as e: log.message(...); supervisor.reload()
except_reload(L) ==
    IF L.exc # "none" THEN [L EXCEPT !.phase = "ended", !.ended_by = "exception"] ELSE L

\* the body of the while loop
loop_body(L, cmd, f, g, polls, d, long) ==
    except_reload(
        resync(sample_and_count(run_command(timer_start(L, cmd), cmd, f, polls, d)),
               long, g, polls))

\* except (KeyboardInterrupt, SystemExit) after the assignment to
\* square_wave_frequency ended as c: an OSError is not the NameError the handler
\* catches
exit_to_repl(L, c) ==
    IF c.exc # "none"
    THEN [L EXCEPT !.chip = c.chip, !.exc = c.exc, !.phase = "ended",
                   !.ended_by = "interrupt"]
    ELSE [L EXCEPT !.chip = c.chip, !.handle = "deinit", !.phase = "ended",
                   !.ended_by = "interrupt"]

\* time.sleep(0.050) and the passing of half a second between two iterations
HalfSecondPasses ==
    /\ loop.phase = "running" /\ loop.sampled
    /\ loop.elapsed < MaxHalf
    /\ loop' = half_second_passes(loop)

\* one iteration of the while loop
Iteration ==
    /\ loop.phase = "running"
    /\ loop.elapsed < MaxHalf
    /\ \E cmd \in Commands, f \in 0..MaxLoopAccess, g \in 0..MaxLoopAccess,
          polls \in 0..MaxPolls, d \in 1..2, long \in BOOLEAN :
          \E r \in {loop_body(loop, cmd, f, g, polls, d, long)} : loop' = r

\* Ctrl-C or sys.exit() while the loop runs
Interrupt ==
    /\ loop.phase = "running"
    /\ \E f \in 0..1 :
          \E c \in {square_wave_frequency_set(Ctx(loop.chip), f, 0)} :
              loop' = exit_to_repl(loop, c)

(***************************************************************************)
(* SpecRtc: Options.rtc (code.py), the handler of the rtc command, from    *)
(* the parameter string to what it shows.  The parameter is held as its    *)
(* first character val[0] and the rest val[1:].  Date/time strings are     *)
(* left to SpecClock.                                                      *)
(***************************************************************************)
RtcVal(first, rest) == [first |-> first, rest |-> rest]

\* what follows the sign in the parameters tried
Units == {"sec", "second", "min", "minute", "hr", "hour",
          "hours", "h", "", "SEC", "day", " sec", "minutes"}

\* the parameters tried: none, sync, nearest and signed units
RtcVals ==
    {RtcVal("", ""), RtcVal("s", "ync"), RtcVal("n", "earest")}
    \cup {RtcVal(sign, unit) : sign \in {"+", "-"}, unit \in Units}

\* a faulty variant: hr and hour are taken as minutes
unit_seconds_hr_as_min(unit) ==
    CASE unit = "sec" \/ unit = "second" -> 1
      [] unit = "min" \/ unit = "minute" -> 60
      [] unit = "hr" \/ unit = "hour" -> 60
      [] OTHER -> 0

\* if unit == 'sec' or unit == 'second': ... elif 'min', 'minute': ... elif 'hr',
\* 'hour': ... else: alternate = 'Invalid time adjustment' (0 here)
unit_seconds(unit) ==
    CASE unit = "sec" \/ unit = "second" -> 1
      [] unit = "min" \/ unit = "minute" -> 60
      [] unit = "hr" \/ unit = "hour" -> 3600
      [] OTHER -> 0

\* direction = +1 if val[0] == '+' else -1
direction(val) == IF val.first = "+" THEN 1 ELSE -1

NoArg == [IntVal(0) EXCEPT !.kind = "none"]

\* the handler so far: nothing called, nothing shown
RtcStarted(ch, local) ==
    [chip |-> ch, local |-> local, alternate |-> "None", arg |-> NoArg,
     bus |-> <<>>, exc |-> "none", hung |-> FALSE, shown |-> "none"]

\* time_keeper.sync_time() ended as c
rtc_synced(o, c) ==
    [o EXCEPT !.chip = c.chip, !.bus = c.bus, !.exc = c.exc, !.hung = c.hung,
              !.local = IF Stopped(c) THEN @ ELSE mktime(c.val)]

\* alternate = time_keeper.update_chip(val) ended as r
rtc_updated(o, val, r) ==
    [o EXCEPT !.chip = r.chip, !.local = r.local, !.arg = val, !.bus = r.bus,
              !.exc = r.exc, !.hung = r.result = "hung",
              !.alternate = IF r.result = "Invalid date/time" THEN r.result ELSE "None"]

\* val[0] == '+' or val[0] == '-': the unit becomes a number of seconds or
\* alternate becomes 'Invalid time adjustment' and update_chip is not called
rtc_signed(o, val, f, polls, u) ==
    IF unit_seconds(val.rest) = 0
    THEN [o EXCEPT !.alternate = "Invalid time adjustment"]
    ELSE rtc_updated(o, IntVal(direction(val) * unit_seconds(val.rest)),
                     TimeKeeper_update_chip(o.chip, o.local,
                                            IntVal(direction(val) * unit_seconds(val.rest)),
                                            f, polls, u))

\* if val: if val == 'sync': ... else: ...
rtc_dispatch(o, val, f, polls, u) ==
    IF val = RtcVal("", "") THEN o
    ELSE IF val = RtcVal("s", "ync")
         THEN rtc_synced(o, TimeKeeper_sync_time(Ctx(o.chip), f, polls, u))
    ELSE IF val.first = "+" \/ val.first = "-" THEN rtc_signed(o, val, f, polls, u)
    ELSE rtc_updated(o, NearestVal,
                     TimeKeeper_update_chip(o.chip, o.local, NearestVal, f, polls, u))

\* self.show('show', 'rtc', alt_text=alternate): show_item prints alt_text or
\* reads the chip (time_keeper.format_chip()), g telling that the read fails
rtc_show(o, g) ==
    IF o.exc # "none" \/ o.hung THEN o
    ELSE IF o.alternate # "None" THEN [o EXCEPT !.shown = o.alternate]
    ELSE IF g THEN [o EXCEPT !.exc = "OSError", !.bus = Append(@, "OSError")]
    ELSE [o EXCEPT !.shown = "date/time", !.bus = Append(@, "rd datetime")]

\* Options.rtc(key, val) called by Command.run
Options_rtc(ch, local, val, f, polls, u, g) ==
    rtc_show(rtc_dispatch(RtcStarted(ch, local), val, f, polls, u), g)

NoRtc == [phase |-> "idle", chip |-> NoChip, local |-> NoSecs,
          val |-> RtcVal("", ""), out |-> RtcStarted(NoChip, NoSecs)]

\* the main loop runs: the oscillator is enabled and local_time_secs was
\* synchronized
RtcInit ==
    \E kind \in ChipKinds, t \in {<<23, 59, 29>>, <<23, 59, 31>>} :
        rtc = [NoRtc EXCEPT
                 !.phase = "ready",
                 !.chip = [kind |-> kind,
                           dt |-> CivilTs(2024, 2, 28, t[1], t[2], t[3]),
                           disable_oscillator |-> FALSE, lost_power |-> FALSE,
                           power_management |-> IF kind = "PCF8523"
                                                THEN BATTERY_SWITCHOVER_OFF ELSE 0],
                 !.local = mktime(CivilTs(2024, 2, 28, t[1], t[2], t[3]))]

\* command.run(['rtc', val])
Rtc_command ==
    /\ rtc.phase = "ready"
    /\ \E val \in RtcVals, f \in 0..MaxBusAccess, polls \in 0..MaxPolls, g \in BOOLEAN :
          \E o \in {Options_rtc(rtc.chip, rtc.local, val, f, polls, 1, g)} :
              rtc' = [rtc EXCEPT !.phase = "done", !.val = val, !.out = o]

(***************************************************************************)
(* SpecButton: Button.read and the handling of the UP button in the main   *)
(* loop (code.py).  time.monotonic_ns() is counted in seconds.  cycle      *)
(* counts, for the properties, what the reads since the latest sampled     *)
(* press returned.                                                         *)
(***************************************************************************)
MaxTime == 5

\* pressed = False; pressed_time = None
NoRead == [pressed |-> FALSE, timed |-> FALSE, pressed_time |-> 0]

NoCycle == [begun |-> FALSE, start |-> 0, end |-> 0, releases |-> 0, nearest |-> 0,
            long |-> 0]

NoButton == [phase |-> "idle", prev_val |-> TRUE, pressed_start_ns |-> 0, now |-> 0,
             result |-> NoRead, cycle |-> NoCycle]

\* Button.__init__: self.prev_val = True; self.pressed_start_ns = 0
ButtonInit == button = [NoButton EXCEPT !.phase = "running"]

\* a faulty variant: every read of a released button reports a release
Button_read_level(b, val) ==
    IF b.prev_val /\ ~val
    THEN [b EXCEPT !.result = [NoRead EXCEPT !.pressed = TRUE],
                   !.pressed_start_ns = b.now, !.prev_val = val]
    ELSE IF val
    THEN [b EXCEPT !.result = [pressed |-> FALSE, timed |-> TRUE,
                               pressed_time |-> b.now - b.pressed_start_ns],
                   !.prev_val = val]
    ELSE IF ~val /\ ~b.prev_val
    THEN [b EXCEPT !.result = [pressed |-> TRUE, timed |-> TRUE,
                               pressed_time |-> b.now - b.pressed_start_ns],
                   !.prev_val = val]
    ELSE [b EXCEPT !.result = NoRead, !.prev_val = val]

\* Button.read with val = self.button.value (False while the button is down)
Button_read(b, val) ==
    IF b.prev_val /\ ~val
    THEN [b EXCEPT !.result = [NoRead EXCEPT !.pressed = TRUE],
                   !.pressed_start_ns = b.now, !.prev_val = val]
    ELSE IF val /\ ~b.prev_val
    THEN [b EXCEPT !.result = [pressed |-> FALSE, timed |-> TRUE,
                               pressed_time |-> b.now - b.pressed_start_ns],
                   !.prev_val = val]
    ELSE IF ~val /\ ~b.prev_val
    THEN [b EXCEPT !.result = [pressed |-> TRUE, timed |-> TRUE,
                               pressed_time |-> b.now - b.pressed_start_ns],
                   !.prev_val = val]
    ELSE [b EXCEPT !.result = NoRead, !.prev_val = val]

\* if not pressed and pressed_time is not None
released(r) == ~r.pressed /\ r.timed

\* if pressed_time > 2.0: log.print("Long press ...") else:
\* options.rtc(None, 'nearest')
up_button_handled(b) ==
    IF ~released(b.result) THEN b
    ELSE IF b.result.pressed_time > 2
         THEN [b EXCEPT !.cycle.releases = @ + 1, !.cycle.long = @ + 1,
                        !.cycle.end = b.now]
         ELSE [b EXCEPT !.cycle.releases = @ + 1, !.cycle.nearest = @ + 1,
                        !.cycle.end = b.now]

\* a press is sampled: the counts start again
cycle_begun(before, after) ==
    IF before.prev_val /\ ~after.prev_val
    THEN [after EXCEPT !.cycle = [NoCycle EXCEPT !.begun = TRUE, !.start = after.now]]
    ELSE after

\* pressed, pressed_time = up_button.read() and what follows it in the loop
up_button_step(b, val) == up_button_handled(cycle_begun(b, Button_read(b, val)))

\* time passes between two iterations of the main loop
ButtonTimePasses ==
    /\ button.phase = "running" /\ button.now < MaxTime
    /\ button' = [button EXCEPT !.now = @ + 1]

\* one iteration of the main loop samples the UP button
ReadUpButton ==
    /\ button.phase = "running"
    /\ \E val \in BOOLEAN : button' = up_button_step(button, val)

(***************************************************************************)
(* SpecConsole, SpecHistory: console.py.  A character is its code, a line  *)
(* a sequence of codes; history[1] here is history[0] there.  pending are  *)
(* the bytes supervisor.runtime.serial_bytes_available tells of.           *)
(***************************************************************************)
\* '\x1b', '[', 'A', 'B', 'C', 'D', '2', '3', '\x7e', '\x7f', '\x08', '\n'
ESC == 27
LeftBracket == 91
LetterA == 65
LetterB == 66
LetterC == 67
LetterD == 68
Digit2 == 50
Digit3 == 51
Tilde == 126
DEL == 127
BS == 8
NL == 10

\* Console.max_history
max_history == 20

\* Console.escape_tree: the node reached from node by ch; "KeyError" when ch is
\* no key of node
escape_step(node, ch) ==
    CASE node = "tree" /\ ch = LeftBracket -> "["
      [] node = "[" /\ ch = LetterA -> "uparrow"
      [] node = "[" /\ ch = LetterB -> "downarrow"
      [] node = "[" /\ ch = LetterC -> "rightarrow"
      [] node = "[" /\ ch = LetterD -> "leftarrow"
      [] node = "[" /\ ch = Digit2 -> "[2"
      [] node = "[" /\ ch = Digit3 -> "[3"
      [] node = "[2" /\ ch = Tilde -> "insert"
      [] node = "[3" /\ ch = Tilde -> "delete"
      [] OTHER -> "KeyError"

\* Console.__init__: _reset_inbuffer(); reset_history(); self.escape = None
NewConsole == [inbuffer |-> <<>>, cursor |-> 0, edited |-> FALSE,
               history |-> << <<>> >>, history_pos |-> 1, escape |-> "None"]

\* Console._reset_inbuffer
Console_reset_inbuffer(C) == [C EXCEPT !.inbuffer = <<>>, !.cursor = 0, !.edited = FALSE]

\* Console._fill_inbuffer
Console_fill_inbuffer(C, cmd) ==
    [C EXCEPT !.inbuffer = cmd, !.cursor = Len(cmd), !.edited = FALSE]

\* Console._delete_and_show:
\* self.inbuffer = self.inbuffer[:self.cursor] + self.inbuffer[self.cursor+1:]
Console_delete_and_show(C) ==
    [C EXCEPT !.edited = TRUE,
              !.inbuffer = SubSeq(@, 1, C.cursor) \o SubSeq(@, C.cursor + 2, Len(@))]

\* Console._insert_and_show
Console_insert_and_show(C, ch) ==
    [C EXCEPT !.edited = TRUE,
              !.inbuffer = SubSeq(@, 1, C.cursor) \o <<ch>> \o SubSeq(@, C.cursor + 1, Len(@)),
              !.cursor = @ + 1]

\* self.history.pop() when len(self.history) > Console.max_history
history_trimmed(h) == IF Len(h) > max_history THEN SubSeq(h, 1, Len(h) - 1) ELSE h

\* Console._add_to_history
Console_add_to_history(C, buf) ==
    IF C.edited /\ buf # C.history[1]
    THEN [C EXCEPT !.history = history_trimmed(<<buf>> \o @)]
    ELSE C

\* nxt == 'uparrow'
uparrow(C) ==
    IF Len(C.history) > C.history_pos
    THEN [Console_fill_inbuffer(C, C.history[C.history_pos]) EXCEPT !.history_pos = @ + 1]
    ELSE C

\* nxt == 'downarrow'
downarrow(C) ==
    IF C.history_pos > 1
    THEN IF C.history_pos - 1 > 1
         THEN [Console_fill_inbuffer(C, C.history[C.history_pos - 2])
                  EXCEPT !.history_pos = C.history_pos - 1]
         ELSE [Console_reset_inbuffer(C) EXCEPT !.history_pos = C.history_pos - 1]
    ELSE Console_reset_inbuffer(C)

\* nxt == 'leftarrow'
leftarrow(C) == IF C.cursor > 0 THEN [C EXCEPT !.cursor = @ - 1] ELSE C

\* nxt == 'rightarrow'
rightarrow(C) == IF C.cursor < Len(C.inbuffer) THEN [C EXCEPT !.cursor = @ + 1] ELSE C

\* nxt == 'delete'
delete(C) == IF C.cursor < Len(C.inbuffer) THEN Console_delete_and_show(C) ELSE C

\* the escape sequence is complete
escape_complete(C, nxt) ==
    CASE nxt = "uparrow" -> uparrow(C)
      [] nxt = "downarrow" -> downarrow(C)
      [] nxt = "leftarrow" -> leftarrow(C)
      [] nxt = "rightarrow" -> rightarrow(C)
      [] nxt = "delete" -> delete(C)
      [] OTHER -> C

\* Console._continue_escape with nxt = self.escape[ch[0]]
escape_continued(C, nxt) ==
    IF nxt = "KeyError" THEN [C EXCEPT !.escape = "None"]
    ELSE IF nxt \in {"[", "[2", "[3"} THEN [C EXCEPT !.escape = nxt]
    ELSE escape_complete([C EXCEPT !.escape = "None"], nxt)

\* Console._continue_escape
Console_continue_escape(C, ch) == escape_continued(C, escape_step(C.escape, ch))

\* a faulty variant: a backspace at the start of the line still moves the cursor
backspace_unguarded(C) == Console_delete_and_show([C EXCEPT !.cursor = @ - 1])

\* ch[0] == '\x7f' or ch[0] == '\x08'
backspace(C) ==
    IF C.cursor > 0 THEN Console_delete_and_show([C EXCEPT !.cursor = @ - 1]) ELSE C

\* ch[0] == '\n' without the return value: the line goes to the history, the
\* buffer is reset and history_pos = 1
newline(C) ==
    [Console_reset_inbuffer(IF C.inbuffer # <<>>
                            THEN Console_add_to_history(C, C.inbuffer) ELSE C)
        EXCEPT !.history_pos = 1]

\* one pass through the body of the while loop of get_line, but for the newline
one_char(C, ch) ==
    IF C.escape # "None" THEN Console_continue_escape(C, ch)
    ELSE IF ch = ESC THEN [C EXCEPT !.escape = "tree"]
    ELSE IF ch = DEL \/ ch = BS THEN backspace(C)
    ELSE Console_insert_and_show(C, ch)

\* is this character handled as the newline
is_newline(C, ch) == C.escape = "None" /\ ch = NL

\* Console.get_line: the while loop consumes the bytes available until a
\* newline is handled; line_str "None" tells that None is returned
RECURSIVE get_line(_, _)
get_line(C, pending) ==
    IF pending = <<>> THEN [con |-> C, pending |-> <<>>, line_str |-> "None", line |-> <<>>]
    ELSE IF is_newline(C, Head(pending))
         THEN [con |-> newline(C), pending |-> Tail(pending),
               line_str |-> IF C.inbuffer # <<>> THEN "line" ELSE "None",
               line |-> C.inbuffer]
    ELSE get_line(one_char(C, Head(pending)), Tail(pending))

MaxKeys == 4
MaxPending == 5
MaxEntered == 22

\* the n-th command entered: one character, other for every n
CommandChar(n) == 32 + n

\* the console after the commands i..n were entered, each with its newline
RECURSIVE Entered(_, _, _)
Entered(C, i, n) ==
    IF i > n THEN C ELSE Entered(get_line(C, <<CommandChar(i), NL>>).con, i + 1, n)

\* what get_line last returned and met
NoGetLine == [called |-> FALSE, line_str |-> "None", line |-> <<>>,
              nl_read |-> FALSE, accumulated |-> <<>>]

NoConsole == [phase |-> "idle", con |-> NewConsole, pending |-> <<>>, keys |-> 0,
              entered |-> 0, ups |-> 0, got |-> NoGetLine]

\* the keys typed, each by the bytes it sends: Console.seq for the arrows,
\* insert and delete, a lone escape, two ways of backspace, enter and text
Keys == {<<ESC, LeftBracket, LetterA>>, <<ESC, LeftBracket, LetterB>>,
         <<ESC, LeftBracket, LetterC>>, <<ESC, LeftBracket, LetterD>>,
         <<ESC, LeftBracket, Digit2, Tilde>>, <<ESC, LeftBracket, Digit3, Tilde>>,
         <<ESC>>, <<DEL>>, <<BS>>, <<NL>>, <<LetterA>>, <<97>>}

\* numbers of commands entered before the keys are typed
EnteredBefore == {0, 2, 19, 20}

ConsoleInit ==
    \E n \in EnteredBefore :
        console = [NoConsole EXCEPT !.phase = "typing", !.entered = n,
                                    !.con = Entered(NewConsole, 1, n)]

\* a key is typed: its bytes wait in the serial input
Receive ==
    /\ console.phase = "typing"
    /\ console.keys < MaxKeys
    /\ \E key \in Keys :
          /\ Len(console.pending) + Len(key) <= MaxPending
          /\ console' = [console EXCEPT !.pending = @ \o key, !.keys = @ + 1]

\* the first character '\n' among the bytes get_line consumes, and the line
\* accumulated when it is read
RECURSIVE nl_read(_, _)
nl_read(C, pending) ==
    IF pending = <<>> THEN [read |-> FALSE, accumulated |-> <<>>]
    ELSE IF Head(pending) = NL THEN [read |-> TRUE, accumulated |-> C.inbuffer]
    ELSE nl_read(one_char(C, Head(pending)), Tail(pending))

got_line(r, nl) ==
    [called |-> TRUE, line_str |-> r.line_str, line |-> r.line,
     nl_read |-> nl.read, accumulated |-> nl.accumulated]

\* cmdstr = console.get_line() in the main loop
Get_line ==
    /\ console.phase = "typing"
    /\ \E r \in {get_line(console.con, console.pending)} :
          console' = [console EXCEPT !.con = r.con, !.pending = r.pending,
                                     !.got = got_line(r, nl_read(console.con,
                                                                 console.pending))]

\* SpecHistory: a fresh Console
HistoryInit == console = [NoConsole EXCEPT !.phase = "history"]

\* the next command is typed with its newline and get_line is called
Enter_command ==
    /\ console.phase = "history" /\ console.ups = 0
    /\ console.entered < MaxEntered
    /\ \E r \in {get_line(console.con, <<CommandChar(console.entered + 1), NL>>)} :
          console' = [console EXCEPT
                        !.con = r.con, !.entered = @ + 1,
                        !.got = got_line(r, nl_read(console.con,
                                             <<CommandChar(console.entered + 1), NL>>))]

\* the up arrow is pressed on a line and get_line is called
Press_up ==
    /\ console.phase = "history"
    /\ console.ups < MaxEntered
    /\ \E r \in {get_line(console.con, <<ESC, LeftBracket, LetterA>>)} :
          console' = [console EXCEPT
                        !.con = r.con, !.ups = @ + 1,
                        !.got = got_line(r, nl_read(console.con,
                                             <<ESC, LeftBracket, LetterA>>))]

(***************************************************************************)
(* SpecTelnet: TelnetD (src/telnet.py), the byte parser of the telnet      *)
(* console.  Bytes are their codes, text is a sequence of codes.  What is  *)
(* sent back to the client is no part of the parser's state.               *)
(***************************************************************************)
telnet_printable == {10} \cup (32..59) \cup (63..126)

telnet_IAC == 255

telnet_cmds == 240..254

telnet_opts == {1, 3, 5, 6, 7, 18, 24, 31, 32, 33, 34, 35, 36, 39, 45}

\* TelnetD.__init__
NewTelnetD == [inbuffer |-> <<>>, cmds |-> <<>>, next_fn |-> "state_text",
               telnet_cmd |-> <<>>, termious |-> "None"]

\* termious_hack: a backspace removes the last buffered character
termious_hack(T, byte) ==
    IF byte = 8 /\ T.inbuffer # <<>>
    THEN [T EXCEPT !.inbuffer = SubSeq(@, 1, Len(@) - 1)]
    ELSE T

handle_telnet_cmd(T) ==
    IF T.termious # "None" THEN T
    ELSE IF Len(T.telnet_cmd) = 8 /\ T.telnet_cmd[1] = 250 /\ T.telnet_cmd[2] = 31
    THEN [T EXCEPT !.termious = "True"]
    ELSE IF Len(T.telnet_cmd) = 2 /\ T.telnet_cmd[1] = 251 /\ T.telnet_cmd[2] = 31
    THEN [T EXCEPT !.termious = "False"]
    ELSE T

text_or_IAC(T, byte) ==
    IF byte = telnet_IAC THEN [T EXCEPT !.next_fn = "state_cmd", !.telnet_cmd = <<>>]
    ELSE IF byte \in telnet_printable THEN [T EXCEPT !.inbuffer = Append(@, byte)]
    ELSE T

state_text(T, byte) ==
    IF T.termious = "True" THEN termious_hack(text_or_IAC(T, byte), byte)
    ELSE text_or_IAC(T, byte)

state_cmd(T, byte) ==
    IF byte \in telnet_cmds
    THEN IF 251 <= byte /\ byte <= 254
         THEN [T EXCEPT !.telnet_cmd = Append(@, byte), !.next_fn = "state_option"]
         ELSE IF byte = 250
         THEN [T EXCEPT !.telnet_cmd = Append(@, byte), !.next_fn = "state_sub"]
         ELSE [handle_telnet_cmd([T EXCEPT !.telnet_cmd = Append(@, byte)])
                  EXCEPT !.next_fn = "state_text"]
    ELSE [T EXCEPT !.next_fn = "state_text"]

\* a faulty variant: a byte that is no known option is taken as text
state_option_unknown_is_text(T, byte) ==
    IF byte \in telnet_opts
    THEN [handle_telnet_cmd([T EXCEPT !.telnet_cmd = Append(@, byte)])
             EXCEPT !.next_fn = "state_text"]
    ELSE state_text([T EXCEPT !.next_fn = "state_text"], byte)

state_option(T, byte) ==
    IF byte \in telnet_opts
    THEN [handle_telnet_cmd([T EXCEPT !.telnet_cmd = Append(@, byte)])
             EXCEPT !.next_fn = "state_text"]
    ELSE [T EXCEPT !.next_fn = "state_text"]

state_sub(T, byte) ==
    IF byte = telnet_IAC
    THEN [T EXCEPT !.telnet_cmd = Append(@, byte), !.next_fn = "state_end_sub"]
    ELSE [T EXCEPT !.telnet_cmd = Append(@, byte)]

state_end_sub(T, byte) ==
    IF byte = 240
    THEN [handle_telnet_cmd([T EXCEPT !.telnet_cmd = Append(@, byte)])
             EXCEPT !.next_fn = "state_text"]
    ELSE [T EXCEPT !.telnet_cmd = Append(@, byte), !.next_fn = "state_sub"]

\* self.next_fn(byte)
next_fn(T, byte) ==
    CASE T.next_fn = "state_text" -> state_text(T, byte)
      [] T.next_fn = "state_cmd" -> state_cmd(T, byte)
      [] T.next_fn = "state_option" -> state_option(T, byte)
      [] T.next_fn = "state_sub" -> state_sub(T, byte)
      [] T.next_fn = "state_end_sub" -> state_end_sub(T, byte)

\* the place of the first '\n' in a text, 0 when it has none
RECURSIVE first_newline(_, _)
first_newline(text, i) ==
    IF i > Len(text) THEN 0
    ELSE IF text[i] = 10 THEN i
    ELSE first_newline(text, i + 1)

\* _parse_cmds: the text before each '\n' becomes a command, the rest stays
RECURSIVE TelnetD_parse_cmds(_)
TelnetD_parse_cmds(T) ==
    IF first_newline(T.inbuffer, 1) = 0 THEN T
    ELSE TelnetD_parse_cmds(
            [T EXCEPT !.cmds = Append(@, SubSeq(T.inbuffer, 1,
                                                first_newline(T.inbuffer, 1) - 1)),
                      !.inbuffer = SubSeq(@, first_newline(@, 1) + 1, Len(@))])

\* the loop of _add_to_buffer; kept tells of each byte whether the input
\* buffer grew by it
RECURSIVE for_byte_in_data(_, _, _)
for_byte_in_data(T, data, kept) ==
    IF data = <<>> THEN [tel |-> T, kept |-> kept]
    ELSE for_byte_in_data(next_fn(T, Head(data)), Tail(data),
                          Append(kept, Len(next_fn(T, Head(data)).inbuffer)
                                           = Len(T.inbuffer) + 1))

MaxFed == 5

\* the bytes a client sends: IAC, SB, SE (outside a subnegotiation a command
\* without option), WILL, the window-size option (no printable character),
\* a letter, newline and backspace
Bytes == {telnet_IAC, 250, 240, 251, 31, 97, 10, 8}

\* what one recv() returns: one byte or two
Data == {<<b>> : b \in Bytes} \cup {<<a, b>> : a \in Bytes, b \in Bytes}

NoTelnet == [phase |-> "idle", tel |-> NewTelnetD, fed |-> <<>>, kept |-> <<>>]

\* a client is connected; its option negotiation (handle_telnet_cmd) has left
\* termious None, True or False
TelnetInit ==
    \E t \in {"None", "True", "False"} :
        telnet = [NoTelnet EXCEPT !.phase = "connected", !.tel.termious = t]

\* check_client: data = recv(); self._add_to_buffer(data)
Add_to_buffer ==
    /\ telnet.phase = "connected"
    /\ \E data \in Data :
          /\ Len(telnet.fed) + Len(data) <= MaxFed
          /\ \E r \in {for_byte_in_data(telnet.tel, data, <<>>)} :
                telnet' = [telnet EXCEPT !.tel = TelnetD_parse_cmds(r.tel),
                                         !.fed = @ \o data,
                                         !.kept = @ \o r.kept]

\* get_cmd: the oldest command is taken
Get_cmd ==
    /\ telnet.phase = "connected"
    /\ telnet.tel.cmds # <<>>
    /\ telnet' = [telnet EXCEPT !.tel.cmds = Tail(@)]

(***************************************************************************)
(* SpecLogger: Logger.message (src/logger.py) with Options.replace and     *)
(* Options.restore (src/code.py) for the 'logging' option, after           *)
(* logger.set_options.  The file system is the environment: it decides     *)
(* what an open or write of /message_log.txt does.                         *)
(***************************************************************************)
MaxLogOps == 4

MaxDepth == 3

\* the file system: writable, full (OSError 28), read-only (OSError 30),
\* another OSError, or an exception that is no OSError
FileSystems == {"writable", "full", "read-only", "io error", "exception"}

\* a Python value taken as a condition
Truthy(val) == val \notin {"False", ""}

\* log = Logger() and the options table's 'logging' entry
NewLogger == [AVAILABLE |-> TRUE, logging |-> "True", fs |-> "writable",
              file |-> 0, printed |-> 0, ops |-> 0,
              failed |-> FALSE, opened_after_failure |-> FALSE,
              enabled_after_failure |-> FALSE,
              nesting |-> 0, unfinished |-> FALSE]

\* Options.replace('logging', val): item[1] = val under its two conditions
Options_replace(L, val) ==
    IF val = "" THEN L
    ELSE IF val = "False" \/ L.AVAILABLE THEN [L EXCEPT !.logging = val]
    ELSE L

\* a faulty variant: the handler leaves AVAILABLE as it is
handle_failure_still_available(L) ==
    Options_replace(L, "False")

\* self.AVAILABLE = False; options.replace('logging', False, show=False)
handle_failure(L) ==
    Options_replace([L EXCEPT !.AVAILABLE = FALSE], "False")

\* the text is printed and sent to the socket
printed(L, do_print) ==
    IF do_print THEN [L EXCEPT !.printed = @ + 1] ELSE L

\* open("/message_log.txt", "a") is reached
opened(L) ==
    [L EXCEPT !.opened_after_failure = @ \/ L.failed]

\* Logger.message; depth counts the calls of message inside one another, and
\* a call still going MaxDepth deep is left unfinished
RECURSIVE Logger_message(_, _, _, _)
Logger_message(L, do_print, log, depth) ==
    IF depth > MaxDepth THEN [L EXCEPT !.unfinished = TRUE]
    ELSE IF ~log \/ ~(L.AVAILABLE /\ Truthy(L.logging))
    THEN [printed(L, do_print) EXCEPT !.nesting = depth]
    ELSE IF L.fs = "writable"
    THEN [opened(printed(L, do_print)) EXCEPT !.file = @ + 1, !.nesting = depth]
    ELSE Logger_message(
            [handle_failure(opened(printed(L, do_print))) EXCEPT !.failed = TRUE],
            TRUE, TRUE, depth + 1)

\* log.message(text) n times in a row
RECURSIVE messages(_, _)
messages(L, n) ==
    IF n = 0 THEN L ELSE messages(Logger_message(L, TRUE, TRUE, 1), n - 1)

\* what an options file holds for 'logging'; it may hold no such key, or
\* be unreadable
OptionFiles == {"True", "False", "on", "no key", "unreadable"}

\* Options.restore
Options_restore(L, optdic) ==
    IF optdic = "unreadable" THEN messages(L, 3)
    ELSE IF optdic = "no key" THEN messages(L, 1)
    ELSE messages(Options_replace(L, optdic), 1)

NoLogger == [NewLogger EXCEPT !.ops = -1]

LoggerInit == logger = NewLogger

step(L) == [L EXCEPT !.ops = @ + 1, !.nesting = 0]

\* a true value is asked for 'logging', noted when a write has failed before
asked(L, val) ==
    [L EXCEPT !.enabled_after_failure = @ \/ (L.failed /\ val \in {"True", "on"})]

\* the file system fills up, is remounted, fails or recovers
FileSystemChanges ==
    /\ logger.ops >= 0
    /\ \E fs \in FileSystems \ {logger.fs} : logger' = [logger EXCEPT !.fs = fs]

\* log.message(...) or log.print(...) anywhere in the program
Message ==
    /\ logger.ops >= 0
    /\ logger.ops < MaxLogOps
    /\ \E log \in BOOLEAN :
          logger' = Logger_message(step(logger), TRUE, log, 1)

\* the command 'logging <val>': Options.replace and the show that follows
Replace ==
    /\ logger.ops >= 0
    /\ logger.ops < MaxLogOps
    /\ \E val \in {"True", "False", ""} :
          logger' = Logger_message(Options_replace(asked(step(logger), val), val),
                                      TRUE, FALSE, 1)

\* the command 'restore <fname>'
Restore ==
    /\ logger.ops >= 0
    /\ logger.ops < MaxLogOps
    /\ \E optdic \in OptionFiles :
          logger' = Options_restore(asked(step(logger), optdic), optdic)

(***************************************************************************)
(* Specifications                                                          *)
(***************************************************************************)

IdentIdle == hw = NoHw /\ regs = NoRegs /\ regs0 = NoRegs /\ ident = NoIdent
ClockIdle ==
    /\ chip = NoChip /\ local_time_secs = NoSecs /\ last = NoLast
    /\ budget = [ops |-> 0, syncs |-> 0, idle |-> 0]
CalUnused == cal = CalIdle
DriverIdle == driver = NoChip /\ call = NoCall
SqwIdle == pins = NoPins /\ sqw = NoSqw
WaveIdle == wave = NoWave
LoopIdle == loop = NoLoop
RtcIdle == rtc = NoRtc
ButtonIdle == button = NoButton
ConsoleIdle == console = NoConsole
TelnetIdle == telnet = NoTelnet
LoggerIdle == logger = NoLogger

InitCal == CalInit /\ IdentIdle /\ ClockIdle /\ DriverIdle /\ SqwIdle /\ WaveIdle /\ LoopIdle /\ RtcIdle /\ ButtonIdle /\ ConsoleIdle /\ TelnetIdle /\ LoggerIdle
NextCal ==
    \/ MktimeThenDatetime /\ UNCHANGED exceptCal
    \/ DatetimeThenMktime /\ UNCHANGED exceptCal
    \/ MktimeBoth /\ UNCHANGED exceptCal
    \/ DayOfWeek /\ UNCHANGED exceptCal
SpecCal == InitCal /\ [][NextCal]_vars

InitIdent == IdentInit /\ CalUnused /\ ClockIdle /\ DriverIdle /\ SqwIdle /\ WaveIdle /\ LoopIdle /\ RtcIdle /\ ButtonIdle /\ ConsoleIdle /\ TelnetIdle /\ LoggerIdle
NextIdent ==
    \/ Run_DS1307_chip_identity /\ UNCHANGED exceptIdent
    \/ Run_DS3231_chip_identity /\ UNCHANGED exceptIdent
    \/ Run_PCF8523_chip_identity /\ UNCHANGED exceptIdent
    \/ Run_Chip_identity /\ UNCHANGED exceptIdent
    \/ Run_Chip_identify /\ UNCHANGED exceptIdent
SpecIdent == InitIdent /\ [][NextIdent]_vars

InitClock == ClockInit /\ CalUnused /\ IdentIdle /\ DriverIdle /\ SqwIdle /\ WaveIdle /\ LoopIdle /\ RtcIdle /\ ButtonIdle /\ ConsoleIdle /\ TelnetIdle /\ LoggerIdle
NextClock ==
    \/ Tick /\ UNCHANGED exceptClock
    \/ CountSecond /\ UNCHANGED exceptClock
    \/ RtcAdjust /\ UNCHANGED exceptClock
    \/ RtcNearest /\ UNCHANGED exceptClock
    \/ RtcSet /\ UNCHANGED exceptClock
    \/ RtcSync /\ UNCHANGED exceptClock
SpecClock == InitClock /\ [][NextClock]_vars

InitDriver == DriverInit /\ CalUnused /\ IdentIdle /\ ClockIdle /\ SqwIdle /\ WaveIdle /\ LoopIdle /\ RtcIdle /\ ButtonIdle /\ ConsoleIdle /\ TelnetIdle /\ LoggerIdle
NextDriver ==
    \/ Set_square_wave_frequency /\ UNCHANGED exceptDriver
    \/ Set_datetime /\ UNCHANGED exceptDriver
    \/ Force_temperature_conversion /\ UNCHANGED exceptDriver
    \/ Set_calibration /\ UNCHANGED exceptDriver
    \/ Get_square_wave_frequency /\ UNCHANGED exceptDriver
SpecDriver == InitDriver /\ [][NextDriver]_vars

InitStartup == StartupInit /\ CalUnused /\ IdentIdle /\ ClockIdle /\ SqwIdle /\ WaveIdle /\ LoopIdle /\ RtcIdle /\ ButtonIdle /\ ConsoleIdle /\ TelnetIdle /\ LoggerIdle
NextStartup ==
    \/ Clock_init_to_search /\ UNCHANGED exceptDriver
SpecStartup == InitStartup /\ [][NextStartup]_vars

InitSqw == SqwInit /\ CalUnused /\ IdentIdle /\ ClockIdle /\ DriverIdle /\ WaveIdle /\ LoopIdle /\ RtcIdle /\ ButtonIdle /\ ConsoleIdle /\ TelnetIdle /\ LoggerIdle
NextSqw ==
    \/ Setup_sqw /\ UNCHANGED exceptSqw
SpecSqw == InitSqw /\ [][NextSqw]_vars

InitWave == WaveInit /\ CalUnused /\ IdentIdle /\ ClockIdle /\ DriverIdle /\ SqwIdle /\ LoopIdle /\ RtcIdle /\ ButtonIdle /\ ConsoleIdle /\ TelnetIdle /\ LoggerIdle
NextWave ==
    \/ ClockAdvance /\ UNCHANGED exceptWave
    \/ LevelChange /\ UNCHANGED exceptWave
    \/ SetEndTime /\ UNCHANGED exceptWave
    \/ FirstSample /\ UNCHANGED exceptWave
    \/ WhileTest /\ UNCHANGED exceptWave
    \/ ReadPin /\ UNCHANGED exceptWave
    \/ Return /\ UNCHANGED exceptWave
SpecWave == InitWave /\ [][NextWave]_vars

InitLoop == LoopInit /\ CalUnused /\ IdentIdle /\ ClockIdle /\ DriverIdle /\ SqwIdle /\ WaveIdle /\ RtcIdle /\ ButtonIdle /\ ConsoleIdle /\ TelnetIdle /\ LoggerIdle
NextLoop ==
    \/ HalfSecondPasses /\ UNCHANGED exceptLoop
    \/ Iteration /\ UNCHANGED exceptLoop
    \/ Interrupt /\ UNCHANGED exceptLoop
SpecLoop == InitLoop /\ [][NextLoop]_vars

InitRtc == RtcInit /\ CalUnused /\ IdentIdle /\ ClockIdle /\ DriverIdle /\ SqwIdle /\ WaveIdle /\ LoopIdle /\ ButtonIdle /\ ConsoleIdle /\ TelnetIdle /\ LoggerIdle
NextRtc ==
    \/ Rtc_command /\ UNCHANGED exceptRtc
SpecRtc == InitRtc /\ [][NextRtc]_vars

InitButton == ButtonInit /\ IdentIdle /\ ClockIdle /\ DriverIdle /\ SqwIdle /\ WaveIdle /\ LoopIdle /\ RtcIdle /\ CalUnused /\ ConsoleIdle /\ TelnetIdle /\ LoggerIdle
NextButton ==
    \/ ButtonTimePasses /\ UNCHANGED exceptButton
    \/ ReadUpButton /\ UNCHANGED exceptButton
SpecButton == InitButton /\ [][NextButton]_vars

InitConsole == ConsoleInit /\ IdentIdle /\ ClockIdle /\ DriverIdle /\ SqwIdle /\ WaveIdle /\ LoopIdle /\ RtcIdle /\ ButtonIdle /\ CalUnused /\ TelnetIdle /\ LoggerIdle
NextConsole ==
    \/ Receive /\ UNCHANGED exceptConsole
    \/ Get_line /\ UNCHANGED exceptConsole
SpecConsole == InitConsole /\ [][NextConsole]_vars

InitHistory == HistoryInit /\ IdentIdle /\ ClockIdle /\ DriverIdle /\ SqwIdle /\ WaveIdle /\ LoopIdle /\ RtcIdle /\ ButtonIdle /\ CalUnused /\ TelnetIdle /\ LoggerIdle
NextHistory ==
    \/ Enter_command /\ UNCHANGED exceptConsole
    \/ Press_up /\ UNCHANGED exceptConsole
SpecHistory == InitHistory /\ [][NextHistory]_vars

InitTelnet == TelnetInit /\ IdentIdle /\ ClockIdle /\ DriverIdle /\ SqwIdle /\ WaveIdle /\ LoopIdle /\ RtcIdle /\ ButtonIdle /\ ConsoleIdle /\ CalUnused /\ LoggerIdle
NextTelnet ==
    \/ Add_to_buffer /\ UNCHANGED exceptTelnet
    \/ Get_cmd /\ UNCHANGED exceptTelnet
SpecTelnet == InitTelnet /\ [][NextTelnet]_vars

InitLogger == LoggerInit /\ IdentIdle /\ ClockIdle /\ DriverIdle /\ SqwIdle /\ WaveIdle /\ LoopIdle /\ RtcIdle /\ ButtonIdle /\ ConsoleIdle /\ TelnetIdle /\ CalUnused
NextLogger ==
    \/ FileSystemChanges /\ UNCHANGED exceptLogger
    \/ Message /\ UNCHANGED exceptLogger
    \/ Replace /\ UNCHANGED exceptLogger
    \/ Restore /\ UNCHANGED exceptLogger
SpecLogger == InitLogger /\ [][NextLogger]_vars

(***************************************************************************)
(* C1: for every valid date/time dt of 2000-2099,                          *)
(* Time2000.datetime(Time2000.mktime(dt)) has the same year, month, day,   *)
(* hour, minute, second and weekday as dt.                                 *)
(***************************************************************************)
C1_RoundTripFromDate ==
    cal.phase = "ts_done" => SameFields(cal.back_ts, cal.ts)

(***************************************************************************)
(* C2: for every s in the 2000-2099 second range,                          *)
(* Time2000.mktime(Time2000.datetime(s)) = s.                              *)
(***************************************************************************)
C2_RoundTripFromSeconds ==
    cal.phase = "secs_done" => cal.back_secs = cal.secs

(***************************************************************************)
(* C3: for every aligned reading t of 2000-2099 and every delta of +-1,    *)
(* +-60, +-3600 with t + delta inside 2000-2099, the adjust path of        *)
(* update_chip writes the calendar date/time delta seconds after t.        *)
(***************************************************************************)
InRange(secs) == secs.d >= 0 /\ secs.d < TotalDays
WroteDatetime == \E i \in 1..Len(last.bus) : last.bus[i] = "wr datetime"

C3_AdjustWritesShiftedTime ==
    (/\ last.op = "adjust" /\ WroteDatetime
     /\ ValidCivil(last.reading)
     /\ InRange(SecsAdd(CivilSeconds(last.reading), last.val.delta)))
    => /\ ValidCivil(last.written)
       /\ CivilSeconds(last.written) = SecsAdd(CivilSeconds(last.reading), last.val.delta)

(***************************************************************************)
(* C4: set_nearest writes a date/time with seconds 0 that is the reading   *)
(* rounded to the minute: the start of the next minute when the reading's  *)
(* seconds are above 30, the start of the current minute otherwise.        *)
(***************************************************************************)
C4_NearestRoundsToMinute ==
    (last.op = "nearest" /\ WroteDatetime /\ ValidCivil(last.reading))
    => /\ last.written.tm_sec = 0
       /\ ValidCivil(last.written)
       /\ CivilSeconds(last.written) =
             SecsAdd(CivilSeconds(last.reading),
                     IF last.reading.tm_sec > 30 THEN 60 - last.reading.tm_sec
                     ELSE -last.reading.tm_sec)

(***************************************************************************)
(* C5: when a step of an update raises (a bus error on a chip read or      *)
(* write, an invalid date/time), TimeKeeper.update_chip returns            *)
(* 'Invalid date/time', no exception reaches the caller and                *)
(* local_time_secs keeps its value.                                        *)
(***************************************************************************)
IsUpdate == last.op \in {"adjust", "nearest", "set"}
StepRaised == last.caught # "none" \/ last.exc # "none"

C5_RaiseYieldsNamedFailure ==
    (IsUpdate /\ StepRaised)
    => /\ last.result = "Invalid date/time"
       /\ last.exc = "none"
       /\ local_time_secs = last.local_before

(***************************************************************************)
(* C6: set_absolute with a field out of range (month outside 1-12, day     *)
(* outside 1-31, hour > 23, minute > 59, second > 59) is reported as the   *)
(* invalid date/time failure and leaves local_time_secs unchanged.         *)
(***************************************************************************)
FieldOutOfRange(val) ==
    \/ val.mon < 1 \/ val.mon > 12
    \/ val.day < 1 \/ val.day > 31
    \/ val.hour > 23 \/ val.mn > 59 \/ val.sec > 59

C6_OutOfRangeSetRejected ==
    (last.op = "set" /\ last.val.form = "ok" /\ FieldOutOfRange(last.val))
    => /\ last.result = "Invalid date/time"
       /\ local_time_secs = last.local_before

(***************************************************************************)
(* C7: sync_time sets local_time_secs to the epoch-2000 seconds of the     *)
(* date/time of the aligned chip read, whatever local_time_secs was, and   *)
(* writes nothing to the chip.                                             *)
(***************************************************************************)
NoWrite(bus) ==
    \A i \in 1..Len(bus) : bus[i] \in {"rd datetime", "OSError"}

C7_SyncLoadsAlignedTime ==
    last.op = "sync"
    => /\ NoWrite(last.bus)
       /\ [chip EXCEPT !.dt = NoTs] = [last.chip_before EXCEPT !.dt = NoTs]
       /\ last.result = "None" =>
             /\ chip.dt \in {ChipNext(last.chip_before.dt)[i] :
                                i \in 1..Len(ChipNext(last.chip_before.dt))}
             /\ ValidCivil(chip.dt) => local_time_secs = CivilSeconds(chip.dt)
             /\ local_time_secs = mktime(chip.dt)

C7_Witness ==
    /\ last.op = "sync" /\ last.result = "None"
    /\ ValidCivil(chip.dt)
    /\ last.local_before # CivilSeconds(last.chip_before.dt)
    /\ local_time_secs = CivilSeconds(chip.dt)
    /\ local_time_secs # SecsAdd(last.local_before, 1)

(***************************************************************************)
(* C8: on a PCF8523 the set_nearest and set_absolute paths set             *)
(* disable_oscillator true before the date/time registers are written and  *)
(* false again only after that write; on DS1307 and DS3231 no path of      *)
(* update_chip sets disable_oscillator true.                               *)
(***************************************************************************)
\* the places of an access in the bus traffic of the last handler
Places(what) == {i \in 1..Len(last.bus) : last.bus[i] = what}

C8_OscillatorStoppedAroundWrite ==
    IsUpdate
    => /\ (last.chip_before.kind = "PCF8523" /\ last.op \in {"nearest", "set"})
          => /\ \A w \in Places("wr datetime") :
                   \E s \in Places("wr disable_oscillator=True") : s < w
             /\ \A e \in Places("wr disable_oscillator=False") :
                   \E w \in Places("wr datetime") : w < e
             /\ last.result = "None" =>
                   /\ Places("wr datetime") # {}
                   /\ Places("wr disable_oscillator=False") # {}
                   /\ ~chip.disable_oscillator
       /\ last.chip_before.kind \in {"DS1307", "DS3231"}
          => /\ Places("wr disable_oscillator=True") = {}
             /\ ~chip.disable_oscillator

C8_Witness ==
    /\ last.op = "nearest" /\ last.chip_before.kind = "PCF8523" /\ last.result = "None"
    /\ Places("wr disable_oscillator=True") # {}
    /\ Places("wr datetime") # {}
    /\ ~chip.disable_oscillator

(***************************************************************************)
(* C9: DS1307.chip_identity / DS3231.chip_identity run against a register  *)
(* set in which only register 0x05 bit 7 latches a written 1 return        *)
(* DS3231; only register 0x10 bit 7: DS1307; neither: PCF8523.             *)
(***************************************************************************)
\* a bit latches a written 1 when it reads 1 after the write
Latches(h, r, bit) == Writable(h, bit) \/ r[bit]

C9_DriverIdentity ==
    (/\ ident.phase = "done" /\ ident.exc = "none"
     /\ ident.proc \in {"DS1307.chip_identity", "DS3231.chip_identity"})
    => LET l5 == Latches(hw, ident.before, "r5b7")
           l10 == Latches(hw, ident.before, "r10b7")
       IN  /\ (l5 /\ ~l10) => ident.ret = "DS3231"
           /\ (~l5 /\ l10) => ident.ret = "DS1307"
           /\ (~l5 /\ ~l10) => ident.ret = "PCF8523"

C9_Witness ==
    /\ ident.phase = "done" /\ ident.exc = "none"
    /\ ident.proc = "DS3231.chip_identity"
    /\ ~Latches(hw, ident.before, "r5b7") /\ Latches(hw, ident.before, "r10b7")
    /\ ident.ret = "DS1307"

(***************************************************************************)
(* C10: after identification, on every branch and also when a bus error    *)
(* interrupts a probe after its test write, register 0x05 bit 7, register  *)
(* 0x10 bit 7 and register 0x3F bit 0 hold the values they had before      *)
(* identification started.                                                 *)
(***************************************************************************)
C10_ProbedBitsRestored ==
    ident.phase = "done" => regs = regs0

(***************************************************************************)
(* C11: a bus error on any access of identification other than the read of *)
(* register 0x13 is a negative result: Clock.Chip._identity and             *)
(* Clock.Chip.identify end with one of DS1307, DS3231, PCF8523 or Unknown   *)
(* and let no exception escape.                                            *)
(***************************************************************************)
IsClockProbe == ident.proc \in {"Chip._identity", "Chip.identify"}

C11_ProbeErrorsAreNegative ==
    (ident.phase = "done" /\ IsClockProbe)
    => /\ ident.exc = "none"
       /\ ident.ret \in {"DS1307", "DS3231", "PCF8523", "Unknown"}

(***************************************************************************)
(* C12: Clock.Chip._identity and PCF8523.chip_identity, when they return:   *)
(* an I/O failure reading register 0x13 yields DS3231; with that read       *)
(* succeeding, DS1307 when register 0x3F bit 0 holds the inverted value it  *)
(* was toggled to, and PCF8523 when it does not.                            *)
(***************************************************************************)
Is13Probe == ident.proc \in {"Chip._identity", "PCF8523.chip_identity"}
Read13Failed == ~hw.has13 \/ ident.f = 1

C12_Probe13Then3F ==
    (ident.phase = "done" /\ Is13Probe)
    => /\ Read13Failed => (ident.exc = "none" /\ ident.ret = "DS3231")
       /\ (~Read13Failed /\ ident.exc = "none")
          => ident.ret = IF Writable(hw, "r3fb0") THEN "DS1307" ELSE "PCF8523"
       /\ ident.f = 0 => ident.exc = "none"

C12_Witness ==
    /\ ident.phase = "done" /\ ident.proc = "Chip._identity" /\ ident.f = 0
    /\ hw.has13 /\ Writable(hw, "r3fb0")
    /\ ident.ret = "DS1307"

(***************************************************************************)
(* C13: the square_wave_frequency setter given a value outside the         *)
(* driver's supported set (DS1307 {0,1,4096,8192,32768}; DS3231            *)
(* {0,1,1024,4096,8192}; PCF8523 {0,1,32,1024,4096,8192,16384,32768})      *)
(* raises an error whose text names the value and leaves the square-wave   *)
(* control bits unchanged; a value inside the set is accepted.             *)
(***************************************************************************)
SupportedFrequencies(kind) ==
    CASE kind = "DS1307" -> {0, 1, 4096, 8192, 32768}
      [] kind = "DS3231" -> {0, 1, 1024, 4096, 8192}
      [] kind = "PCF8523" -> {0, 1, 32, 1024, 4096, 8192, 16384, 32768}

BusFailed(bus) == \E i \in 1..Len(bus) : bus[i] = "OSError"

C13_UnsupportedFrequencyRejected ==
    call.op = "square_wave_frequency"
    => /\ call.arg \notin SupportedFrequencies(driver.kind)
          => /\ call.result = "raised" /\ call.exc = "ValueError"
             /\ Len(call.message) = 3 /\ call.message[2] = call.arg
             /\ driver.square_wave_control = call.before.square_wave_control
       /\ call.arg \in SupportedFrequencies(driver.kind)
          => /\ call.exc # "ValueError"
             /\ ~BusFailed(call.bus) => call.result = "returned"

C13_Witness ==
    /\ call.op = "square_wave_frequency" /\ driver.kind = "DS3231" /\ call.arg = 32768
    /\ call.exc = "ValueError"
    /\ driver.square_wave_control = call.before.square_wave_control

(***************************************************************************)
(* C14: when the datetime setter returns, on a DS3231 the oscillator-       *)
(* disable bit and the lost-power flag read false whatever they were        *)
(* before; on a PCF8523 the oscillator-disable bit reads false.             *)
(***************************************************************************)
C14_SetterRestartsOscillator ==
    (call.op = "datetime" /\ call.result = "returned")
    => /\ driver.kind = "DS3231" => (~driver.disable_oscillator /\ ~driver.lost_power)
       /\ driver.kind = "PCF8523" => ~driver.disable_oscillator

C14_Witness ==
    /\ call.op = "datetime" /\ call.result = "returned" /\ driver.kind = "DS3231"
    /\ call.before.disable_oscillator /\ call.before.lost_power
    /\ ~driver.disable_oscillator /\ ~driver.lost_power

(***************************************************************************)
(* C15: setup_sqw examines the candidate pins in the order A1, A2, A3, A4, *)
(* A0 and returns the first pin in that order on which a level transition  *)
(* is seen within its window; every pin before it was sampled and showed   *)
(* none, and the pins after it are never configured or sampled.            *)
(***************************************************************************)
ClaimedOrder == <<"A1", "A2", "A3", "A4", "A0">>

\* has_square_wave accepted the pin
Transition(p) == pins[p].signal = "toggles"

\* a level other than the first sample was read before end_time, whether or
\* not the clock was still short of end_time at the return
SeenInWindow(p) == pins[p].signal \in {"toggles", "late"}

C15_FirstPinInOrderWins ==
    sqw.phase = "done"
    => \E k \in 1..6 :
          /\ IF k = 6 THEN sqw.pin = "None"
             ELSE sqw.pin = ClaimedOrder[k] /\ SeenInWindow(ClaimedOrder[k])
                  /\ pins[ClaimedOrder[k]].sampled
          /\ \A j \in 1..5 :
                /\ j < k => (pins[ClaimedOrder[j]].sampled /\ ~SeenInWindow(ClaimedOrder[j]))
                /\ j > k => (~pins[ClaimedOrder[j]].sampled
                             /\ pins[ClaimedOrder[j]].handle = "none")

(***************************************************************************)
(* C16: when setup_sqw returns, every pin that was tried and rejected has  *)
(* been deinitialized and at most one handle, the returned one, is still   *)
(* held; when no candidate shows a transition all five are deinitialized,  *)
(* nothing is returned and startup aborts.                                 *)
(***************************************************************************)
C16_RejectedPinsReleased ==
    sqw.phase = "done"
    => /\ \A p \in Pins : (pins[p].sampled /\ p # sqw.pin) => pins[p].handle = "deinit"
       /\ \A p \in Pins : pins[p].handle = "held" => p = sqw.pin
       /\ Cardinality({p \in Pins : pins[p].handle = "held"}) <= 1
       /\ (\A p \in Pins : ~Transition(p))
          => /\ \A p \in {"A0", "A1", "A2", "A3", "A4"} : pins[p].handle = "deinit"
             /\ sqw.pin = "None" /\ sqw.aborted

C16_Witness ==
    /\ sqw.phase = "done" /\ sqw.pin = "None" /\ sqw.aborted
    /\ \A p \in Pins : ~Transition(p) /\ pins[p].sampled /\ pins[p].handle = "deinit"
    /\ pins["A2"].signal = "late"

(***************************************************************************)
(* C17 as stated: the aligned read polls the chip until the seconds field  *)
(* differs from the first reading, then performs one further chip read and *)
(* returns that re-read value.                                             *)
(***************************************************************************)
AlignedReadDone == last.op # "none" /\ last.result = "None"

\* the read that first returned seconds other than those of the first reading
FirstChanged(reads) ==
    {k \in 1..Len(reads) : /\ reads[k].tm_sec # reads[1].tm_sec
                           /\ \A j \in 1..(k - 1) : reads[j].tm_sec = reads[1].tm_sec}

C17_RereadAfterChange ==
    AlignedReadDone
    => \E k \in FirstChanged(last.reads) :
          /\ Len(last.reads) = k + 1
          /\ last.synced = last.reads[k + 1]

(***************************************************************************)
(* C17 amended: the aligned read polls the chip until the seconds field    *)
(* differs from the first reading and returns the reading that showed the  *)
(* change; no further chip read follows it.                                *)
(***************************************************************************)
C17_ReturnsChangedRead ==
    AlignedReadDone
    => \E k \in FirstChanged(last.reads) :
          /\ Len(last.reads) = k
          /\ last.synced = last.reads[k]
          /\ chip.dt = last.reads[k]

C17_Witness ==
    /\ last.op = "sync" /\ last.result = "None"
    /\ Len(last.reads) = 3
    /\ last.reads[1] = last.chip_before.dt /\ last.reads[2] = last.reads[1]
    /\ last.reads[3].tm_sec # last.reads[1].tm_sec
    /\ last.synced = last.reads[3]

(***************************************************************************)
(* C18: the second-boundary alignment read always terminates; when the     *)
(* chip's seconds never change (the oscillator is halted) it ends with a   *)
(* distinct timeout error instead of polling forever.                      *)
(***************************************************************************)
C18_AlignedReadTimesOut ==
    (last.op # "none" /\ last.chip_before.kind # "none")
    => /\ last.result # "hung"
       /\ (last.op = "sync" /\ last.chip_before.disable_oscillator /\ ~BusFailed(last.bus))
          => last.exc = "TimeoutError"

(***************************************************************************)
(* C19: DS3231 force_temperature_conversion, and the calibration setter    *)
(* that calls it, always terminates; when the busy flag or the conversion- *)
(* request flag never clears it ends with a timeout error.                 *)
(***************************************************************************)
C19_ConversionWaitTimesOut ==
    call.op \in {"force_temperature_conversion", "calibration"}
    => /\ call.result # "hung"
       /\ ((call.before.busy_polls = Stuck \/ call.before.conv_polls = Stuck)
           /\ ~BusFailed(call.bus))
          => call.exc = "TimeoutError"

(***************************************************************************)
(* C20: Time2000.mktime is strictly monotonic: for two valid date/times    *)
(* dt1 and dt2 of 2000-2099 with dt1 earlier than dt2,                     *)
(* mktime(dt1) < mktime(dt2).                                              *)
(***************************************************************************)
C20_MktimeStrictlyMonotonic ==
    (cal.phase = "pair_done" /\ ValidCivil(cal.ts) /\ ValidCivil(cal.later)
     /\ Earlier(cal.ts, cal.later))
    => SecsLess(cal.secs, cal.later_secs)

C20_Witness ==
    /\ cal.phase = "pair_done"
    /\ SameFields(cal.ts, CivilTs(2000, 12, 31, 23, 59, 59))
    /\ SameFields(cal.later, CivilTs(2001, 1, 1, 0, 0, 0))
    /\ SecsLess(cal.secs, cal.later_secs)

(***************************************************************************)
(* C21: Time2000.day_of_week(y, m, d) is the true weekday (0 = Sunday ...  *)
(* 6 = Saturday) of every valid date of 2000-01-01 .. 2099-12-31, and      *)
(* day_of_week(2000, 1, 1) = 6.                                            *)
(***************************************************************************)
C21_DayOfWeekIsTrueWeekday ==
    (cal.phase = "wday_done" /\ ValidCivil(cal.ts))
    => /\ cal.wday = CivilWeekday(cal.ts.tm_year, cal.ts.tm_mon, cal.ts.tm_mday)
       /\ (cal.ts.tm_year = 2000 /\ cal.ts.tm_mon = 1 /\ cal.ts.tm_mday = 1) => cal.wday = 6

C21_Witness ==
    /\ cal.phase = "wday_done"
    /\ cal.ts.tm_year = 2099 /\ cal.ts.tm_mon = 2 /\ cal.ts.tm_mday = 28
    /\ cal.wday = 6

(***************************************************************************)
(* C22: for every year y of 2000-2099, mktime(y-03-01T00:00:00) minus      *)
(* mktime(y-02-28T00:00:00) is 172800 when 4 divides y and 86400 otherwise *)
(* (172800 for 2024, 86400 for 2023).                                      *)
(***************************************************************************)
\* b - a for two counts of seconds less than 2^31 apart
SecsDiff(b, a) == (b.d - a.d) * 86400 + (b.s - a.s)

FebruaryPair ==
    /\ cal.phase = "pair_done"
    /\ cal.ts.tm_year \in 2000..2099 /\ cal.later.tm_year = cal.ts.tm_year
    /\ cal.ts.tm_mon = 2 /\ cal.ts.tm_mday = 28
    /\ cal.later.tm_mon = 3 /\ cal.later.tm_mday = 1
    /\ cal.ts.tm_hour = 0 /\ cal.ts.tm_min = 0 /\ cal.ts.tm_sec = 0
    /\ cal.later.tm_hour = 0 /\ cal.later.tm_min = 0 /\ cal.later.tm_sec = 0

C22_LeapDayCounted ==
    FebruaryPair
    => /\ SecsDiff(cal.later_secs, cal.secs)
             = IF cal.ts.tm_year % 4 = 0 THEN 172800 ELSE 86400
       /\ cal.ts.tm_year = 2024 => SecsDiff(cal.later_secs, cal.secs) = 172800
       /\ cal.ts.tm_year = 2023 => SecsDiff(cal.later_secs, cal.secs) = 86400

C22_Witness ==
    FebruaryPair /\ cal.ts.tm_year = 2096 /\ SecsDiff(cal.later_secs, cal.secs) = 172800

(***************************************************************************)
(* C23: for every s of the 2000-2099 second range, Time2000.datetime(s)    *)
(* has year 2000-2099, month 1-12, day between 1 and the length of that    *)
(* month in that year, hour 0-23, minute 0-59, second 0-59, weekday 0-6.   *)
(***************************************************************************)
C23_DatetimeFieldsInRange ==
    (cal.phase = "secs_done" /\ InRange(cal.secs))
    => /\ cal.ts.tm_year \in 2000..2099
       /\ cal.ts.tm_mon \in 1..12
       /\ cal.ts.tm_mday >= 1
       /\ cal.ts.tm_mday <= (IF cal.ts.tm_mon = 2
                             THEN (IF cal.ts.tm_year % 4 = 0 THEN 29 ELSE 28)
                             ELSE IF cal.ts.tm_mon \in {4, 6, 9, 11} THEN 30 ELSE 31)
       /\ cal.ts.tm_hour \in 0..23 /\ cal.ts.tm_min \in 0..59 /\ cal.ts.tm_sec \in 0..59
       /\ cal.ts.tm_wday \in 0..6

C23_Witness ==
    /\ cal.phase = "secs_done" /\ cal.secs = Secs(TotalDays - 1, 86399)
    /\ cal.ts.tm_year = 2099 /\ cal.ts.tm_mon = 12 /\ cal.ts.tm_mday = 31
    /\ cal.ts.tm_hour = 23 /\ cal.ts.tm_min = 59 /\ cal.ts.tm_sec = 59

(***************************************************************************)
(* C27: after Clock.update_chip returns, whether it succeeded or failed,   *)
(* the chip's oscillator is enabled: a failure between stopping the        *)
(* PCF8523 oscillator and completing the date/time write does not leave    *)
(* disable_oscillator true.                                                *)
(***************************************************************************)
\* Clock.update_chip returned: None was returned (a step raised), or the
\* sync_time that follows a success ran
UpdateChipReturned == IsUpdate /\ last.result \in {"Invalid date/time", "None", "raised"}

C27_OscillatorEnabledAfterUpdate ==
    UpdateChipReturned => ~chip.disable_oscillator

(***************************************************************************)
(* C28: for each driver and each frequency f of its supported set, reading *)
(* square_wave_frequency immediately after setting it to f returns f.      *)
(***************************************************************************)
C28_FrequencyReadsBack ==
    (/\ call.op = "square_wave_frequency" /\ call.result = "returned"
     /\ call.arg \in SupportedFrequencies(driver.kind)
     /\ call.got.state = "returned")
    => call.got.value = call.arg

(***************************************************************************)
(* C30: when Clock.__init__ starts the square-wave pin search, the chip's  *)
(* oscillator is enabled, the square-wave frequency has been set to 1 Hz,  *)
(* and the stored date/time has day 1-31, month 1-12, hour <= 23,          *)
(* minute <= 59 and second <= 59, a stored value failing that check having *)
(* been replaced by 2000-01-01 00:00:00.                                   *)
(***************************************************************************)
SearchStarts == call.op = "Clock.__init__" /\ call.result = "returned"

\* the control bits that select 1 Hz on each chip
OneHertz(kind) ==
    CASE kind = "DS1307" -> 16
      [] kind = "DS3231" -> 0
      [] kind = "PCF8523" -> 6

PassesCheck(ts) ==
    /\ ts.tm_mday \in 1..31 /\ ts.tm_mon \in 1..12
    /\ ts.tm_hour <= 23 /\ ts.tm_min <= 59 /\ ts.tm_sec <= 59

C30_ChipReadyBeforeSearch ==
    SearchStarts
    => /\ ~driver.disable_oscillator
       /\ driver.square_wave_control = OneHertz(driver.kind)
       /\ \E i \in 1..Len(call.bus) : call.bus[i] = "wr square_wave_control"
       /\ PassesCheck(driver.dt)
       \* the value read for the check is the stored one unless the oscillator
       \* had to be started and a second was slept
       /\ (~PassesCheck(call.before.dt) /\ ~call.before.disable_oscillator)
          => \E i \in 1..Len(call.bus) : call.bus[i] = "wr datetime"
       /\ (\E i \in 1..Len(call.bus) : call.bus[i] = "wr datetime")
          => SameFields([driver.dt EXCEPT !.tm_wday = 6], CivilTs(2000, 1, 1, 0, 0, 0))

C30_Witness ==
    /\ SearchStarts
    /\ call.before.disable_oscillator /\ call.before.dt.tm_mday = 0
    /\ call.before.square_wave_control # OneHertz(driver.kind)
    /\ ~driver.disable_oscillator
    /\ driver.square_wave_control = OneHertz(driver.kind)
    /\ \E i \in 1..Len(call.bus) : call.bus[i] = "wr datetime"
    /\ driver.dt.tm_year = 2000 /\ driver.dt.tm_mon = 1 /\ driver.dt.tm_mday = 1

(***************************************************************************)
(* C29: has_square_wave returns true whenever it read a pin level other    *)
(* than its first sample before the 2-second deadline, and returns false   *)
(* only when no level change was read during the whole window, however     *)
(* the advance of the clock interleaves with the statements of the loop.   *)
(***************************************************************************)
C29_ObservedChangeReturnsTrue ==
    wave.pc = "done"
    => /\ wave.observed => wave.result
       /\ ~wave.result => ~wave.observed

(***************************************************************************)
(* C24: on every path that ends the program - the restart command,         *)
(* KeyboardInterrupt/SystemExit, and the reload after an unhandled         *)
(* exception in the main loop - the located square-wave pin handle has     *)
(* been deinitialized when the program ends.                               *)
(***************************************************************************)
C24_HandleReleasedAtEnd ==
    loop.phase = "ended" => loop.handle = "deinit"

(***************************************************************************)
(* C25: at the end of every main-loop iteration local_time_secs is not     *)
(* ahead of the chip's time: a second boundary consumed by sync_time       *)
(* inside the iteration is not counted again by the falling-edge           *)
(* increment.                                                              *)
(***************************************************************************)
C25_LocalNeverAhead ==
    (loop.phase = "running" /\ loop.it.ran)
    => ~SecsLess(mktime(loop.chip.dt), loop.local)

(***************************************************************************)
(* C26: in the main loop local_time_secs and uptime are each incremented   *)
(* by exactly 1 on every observed high-to-low transition of the pin and    *)
(* are left alone by a low-to-high transition and by an iteration without  *)
(* a transition; the display is updated on both kinds of transition.       *)
(***************************************************************************)
Fell(it) == it.last_sqw /\ ~it.sqw
Rose(it) == ~it.last_sqw /\ it.sqw

C26_SecondCountedOnFall ==
    loop.it.ran
    => /\ Fell(loop.it) => /\ loop.it.local_after = SecsAdd(loop.it.local_before, 1)
                           /\ loop.it.uptime_after = loop.it.uptime_before + 1
                           /\ loop.it.updates = 1
       /\ Rose(loop.it) => /\ loop.it.local_after = loop.it.local_before
                           /\ loop.it.uptime_after = loop.it.uptime_before
                           /\ loop.it.updates = 1
       /\ (~Fell(loop.it) /\ ~Rose(loop.it))
          => /\ loop.it.local_after = loop.it.local_before
             /\ loop.it.uptime_after = loop.it.uptime_before
             /\ loop.it.updates = 0
       /\ loop.uptime = loop.it.uptime_after

C26_Witness ==
    /\ loop.it.ran /\ Fell(loop.it) /\ ~loop.it.resynced
    /\ loop.cmd = "none"
    /\ loop.it.uptime_after = 1
    /\ loop.it.local_after = SecsAdd(loop.it.local_before, 1)

(***************************************************************************)
(* C31: the rtc command with a '+' or '-' followed by a unit other than    *)
(* sec, second, min, minute, hr or hour shows 'Invalid time adjustment',   *)
(* reads and writes nothing on the chip and leaves local_time_secs alone;  *)
(* the accepted units pass deltas of exactly 1, 60 and 3600 seconds with   *)
(* the sign of the prefix to update_chip.                                  *)
(***************************************************************************)
Signed == rtc.phase = "done" /\ rtc.val.first \in {"+", "-"}

ClaimedDelta(unit) ==
    CASE unit \in {"sec", "second"} -> 1
      [] unit \in {"min", "minute"} -> 60
      [] unit \in {"hr", "hour"} -> 3600
      [] OTHER -> 0

C31_InvalidUnitTouchesNothing ==
    Signed
    => IF ClaimedDelta(rtc.val.rest) = 0
       THEN /\ rtc.out.shown = "Invalid time adjustment"
            /\ rtc.out.bus = <<>>
            /\ rtc.out.chip = rtc.chip
            /\ rtc.out.local = rtc.local
            /\ rtc.out.arg = NoArg
       ELSE /\ rtc.out.arg.kind = "int"
            /\ rtc.out.arg.delta = (IF rtc.val.first = "+" THEN 1 ELSE -1)
                                   * ClaimedDelta(rtc.val.rest)

C31_Witness ==
    /\ Signed /\ rtc.val = RtcVal("-", "hours")
    /\ rtc.out.shown = "Invalid time adjustment" /\ rtc.out.bus = <<>>

(***************************************************************************)
(* C32: for any sequence of levels sampled by Button.read, each press and  *)
(* release produces exactly one result with pressed false and a            *)
(* pressed_time, the release; the main loop runs the nearest-minute        *)
(* correction at most once per press of the UP button and only when the    *)
(* press lasted no more than 2.0 seconds.                                  *)
(***************************************************************************)
C32_OneReleasePerPress ==
    /\ button.cycle.releases <= 1
    /\ (button.cycle.begun /\ button.prev_val) => button.cycle.releases = 1
    /\ (button.cycle.begun /\ ~button.prev_val) => button.cycle.releases = 0
    /\ ~button.cycle.begun => button.cycle.releases = 0
    /\ button.cycle.nearest + button.cycle.long = button.cycle.releases
    /\ button.cycle.nearest = 1 => button.cycle.end - button.cycle.start <= 2
    /\ button.cycle.long = 1 => button.cycle.end - button.cycle.start > 2
    /\ released(button.result) => button.prev_val

C32_Witness ==
    /\ button.cycle.begun /\ button.prev_val /\ button.cycle.releases = 1
    /\ button.cycle.nearest = 1 /\ button.cycle.end - button.cycle.start = 2
    /\ button.now = 4 /\ ~released(button.result)

(***************************************************************************)
(* C33: Console.get_line returns None on every call until a newline is     *)
(* received; on a newline it returns the accumulated line exactly once     *)
(* (None when the line is empty), and afterwards the input buffer is       *)
(* empty, the cursor is 0 and history_pos is 1.                            *)
(***************************************************************************)
C33_NewlineReturnsLine ==
    console.got.called
    => /\ ~console.got.nl_read => console.got.line_str = "None"
       /\ console.got.nl_read
          => /\ console.got.line_str
                = (IF console.got.accumulated # <<>> THEN "line" ELSE "None")
             /\ console.got.line_str = "line" => console.got.line = console.got.accumulated
             /\ console.con.inbuffer = <<>>
             /\ console.con.cursor = 0
             /\ console.con.history_pos = 1

(***************************************************************************)
(* C34: after any sequence of input characters processed by get_line       *)
(* (text, backspace, arrow keys, delete, valid and invalid escape          *)
(* sequences, newline): 0 <= cursor <= len(inbuffer),                      *)
(* 1 <= len(history) <= max_history (20) and                               *)
(* 1 <= history_pos <= len(history).                                       *)
(***************************************************************************)
C34_ConsoleInvariants ==
    console.phase = "typing"
    => /\ 0 <= console.con.cursor
       /\ console.con.cursor <= Len(console.con.inbuffer)
       /\ 1 <= Len(console.con.history)
       /\ Len(console.con.history) <= 20
       /\ 1 <= console.con.history_pos
       /\ console.con.history_pos <= Len(console.con.history)

C34_Witness ==
    /\ console.phase = "typing" /\ console.entered = 20 /\ console.got.called
    /\ Len(console.con.history) = 20 /\ console.con.history[1] = <<97>>
    /\ console.con.history_pos = 2
    /\ console.con.inbuffer = <<97>> /\ console.con.cursor = 0

(***************************************************************************)
(* C35: with n distinct edited commands entered, for every n from 1 up to  *)
(* and beyond max_history = 20, pressing the up arrow k times from a fresh *)
(* line puts the k-th most recently entered command in the input buffer,   *)
(* for every k from 1 to min(n, 20).                                       *)
(***************************************************************************)
Min(a, b) == IF a < b THEN a ELSE b

C35_RecallsLastTwenty ==
    (/\ console.phase = "history"
     /\ console.entered >= 1
     /\ console.ups \in 1..Min(console.entered, 20))
    => console.con.inbuffer = <<CommandChar(console.entered - console.ups + 1)>>

(***************************************************************************)
(* C36: of the bytes fed to _add_to_buffer, those of a telnet command      *)
(* sequence (IAC, the command byte, the option byte after WILL, WONT, DO   *)
(* or DONT, and every byte of a subnegotiation up to and including IAC SE) *)
(* are never appended to the input buffer, and when a command sequence is  *)
(* complete or invalid the parser is in the text state.                    *)
(***************************************************************************)
\* where the telnet protocol stands after a byte
Protocol(mode, byte) ==
    CASE mode = "text" -> IF byte = telnet_IAC THEN "command" ELSE "text"
      [] mode = "command" -> IF byte \in 251..254 THEN "option"
                             ELSE IF byte = 250 THEN "subnegotiation"
                             ELSE "text"
      [] mode = "option" -> "text"
      [] mode = "subnegotiation" -> IF byte = telnet_IAC THEN "subnegotiation IAC"
                                    ELSE "subnegotiation"
      [] mode = "subnegotiation IAC" -> IF byte = 240 THEN "text" ELSE "subnegotiation"

RECURSIVE ModeAfter(_)
ModeAfter(n) ==
    IF n = 0 THEN "text" ELSE Protocol(ModeAfter(n - 1), telnet.fed[n])

InCommandSequence(i) ==
    ModeAfter(i - 1) # "text" \/ telnet.fed[i] = telnet_IAC

C36_CommandBytesNeverBuffered ==
    /\ \A i \in 1..Len(telnet.fed) : InCommandSequence(i) => ~telnet.kept[i]
    /\ ModeAfter(Len(telnet.fed)) = "text" => telnet.tel.next_fn = "state_text"

C36_Witness ==
    /\ telnet.fed = <<telnet_IAC, 251, 97, 97, 10>>
    /\ telnet.kept = <<FALSE, FALSE, FALSE, TRUE, TRUE>>
    /\ telnet.tel.cmds = <<<<97>>>>

(***************************************************************************)
(* C37: once a write of the log file has failed in Logger.message,         *)
(* log.AVAILABLE is false and the 'logging' option is false for the rest   *)
(* of the run, whatever Options.replace('logging', True) or restore come   *)
(* later; no later message call opens the log file; and the call of        *)
(* message made while the failure is handled returns, one call deep.       *)
(***************************************************************************)
C37_LoggingStaysDisabled ==
    /\ logger.failed =>
          /\ ~logger.AVAILABLE
          /\ logger.logging = "False"
          /\ ~logger.opened_after_failure
    /\ ~logger.unfinished
    /\ logger.nesting <= 2

C37_Witness ==
    /\ logger.failed
    /\ logger.enabled_after_failure
    /\ logger.fs = "writable"
    /\ logger.ops = MaxLogOps
    /\ logger.file = 1

=============================================================================
